---- MODULE Spec2Model ----
(***************************************************************************)
(* Privacy pipeline of privacy-enabled-agents: the key-value entity store, *)
(* the replacer (replace / restore), the conversation store and the        *)
(* privacy wrapper's _generate, modelled at the level of characters so     *)
(* that splicing, substring matching and (de)serialisation are computed    *)
(* as the code computes them.                                              *)
(*                                                                         *)
(* A text is a sequence of one-character strings.                          *)
(***************************************************************************)
EXTENDS Integers, Sequences, FiniteSets, TLC

\* ------------------------------------------------------------------------
\* Bounds of the model
\* ------------------------------------------------------------------------
MaxCounter == 3

MaxOps == 3

MaxTurns == 2

\* ------------------------------------------------------------------------
\* Python string primitives
\* ------------------------------------------------------------------------
\* None as a text: no text equals it, since a text holds single characters.
None == <<"None">>

\* None for a (text, label) record
NoRecord == [text |-> None, label |-> None]

Min(a, b) == IF a < b THEN a ELSE b

Max(a, b) == IF a > b THEN a ELSE b

\* Python index normalisation of a slice bound: negative bounds count from
\* the end, and every bound is clamped into 0..len.
SliceIndex(n, i) == IF i < 0 THEN Max(n + i, 0) ELSE Min(i, n)

\* text[:i]
SliceTo(text, i) == SubSeq(text, 1, SliceIndex(Len(text), i))

\* text[j:]
SliceFrom(text, j) == SubSeq(text, SliceIndex(Len(text), j) + 1, Len(text))

\* text[i:i+len(p)] == p
MatchAt(text, p, i) ==
    /\ i + Len(p) - 1 <= Len(text)
    /\ \A k \in 1..Len(p) : text[i + k - 1] = p[k]

\* p in text
Contains(text, p) == \E i \in 1..(Len(text) + 1) : MatchAt(text, p, i)

\* text.replace(p, o): every non-overlapping occurrence, scanning from the
\* left; an empty p inserts o before every character and at the end.
RECURSIVE StrReplaceFrom(_, _, _, _)
StrReplaceFrom(text, p, o, i) ==
    IF i > Len(text)
    THEN IF p = <<>> THEN o ELSE <<>>
    ELSE IF p = <<>>
         THEN o \o <<text[i]>> \o StrReplaceFrom(text, p, o, i + 1)
         ELSE IF MatchAt(text, p, i)
              THEN o \o StrReplaceFrom(text, p, o, i + Len(p))
              ELSE <<text[i]>> \o StrReplaceFrom(text, p, o, i + 1)

StrReplace(text, p, o) == StrReplaceFrom(text, p, o, 1)

LowerChars == <<"a", "b", "c", "d", "e", "f", "g", "h", "i", "j", "k", "l", "m",
                "n", "o", "p", "q", "r", "s", "t", "u", "v", "w", "x", "y", "z">>

UpperChars == <<"A", "B", "C", "D", "E", "F", "G", "H", "I", "J", "K", "L", "M",
                "N", "O", "P", "Q", "R", "S", "T", "U", "V", "W", "X", "Y", "Z">>

\* str.upper() on one character
UpperChar(c) ==
    IF \E k \in 1..26 : LowerChars[k] = c
    THEN UpperChars[CHOOSE k \in 1..26 : LowerChars[k] = c]
    ELSE c

DigitChars == <<"0", "1", "2", "3", "4", "5", "6", "7", "8", "9">>

RECURSIVE Decimal(_)
Decimal(n) ==
    IF n < 10 THEN <<DigitChars[n + 1]>>
    ELSE Decimal(n \div 10) \o <<DigitChars[(n % 10) + 1]>>

\* f"{counter:02d}"
Format02d(n) == IF n < 10 THEN <<"0">> \o Decimal(n) ELSE Decimal(n)

\* ------------------------------------------------------------------------
\* Identifiers
\* ------------------------------------------------------------------------
\* UUIDs a caller's key resolves to, and UUIDs uuid4() hands out.
KeyedThreads == {"T0", "T1", "T2"}

\* the UUID uuid4() returns in the n-th turn
FreshThread(n) == "F" \o ToString(n)

FreshThreads == {FreshThread(n) : n \in 1..MaxTurns}

ThreadIds == KeyedThreads \cup FreshThreads

\* ------------------------------------------------------------------------
\* ValkeyEntityStorage: the keys of one database
\*   ctx:<t>:rep:<p>   -> {text, label}       rep[t][p]
\*   ctx:<t>:reps      -> set of placeholders  reps[t]
\*   ctx:<t>:tex2rep   -> hash text -> p       tex2rep[t][text]
\*   ctx:<t>:lc:<l>    -> counter              lc[t][l]
\*   ctxs              -> set of threads       ctxs
\* A key that does not exist is a point outside the function's domain.
\* ------------------------------------------------------------------------
EmptyMap == [x \in {} |-> None]

EmptyEntityStore ==
    [rep     |-> [t \in ThreadIds |-> EmptyMap],
     reps    |-> [t \in ThreadIds |-> {}],
     tex2rep |-> [t \in ThreadIds |-> EmptyMap],
     lc      |-> [t \in ThreadIds |-> EmptyMap],
     ctxs    |-> {},
     contexts |-> {}]

MapSet(f, k, v) == [x \in (DOMAIN f) \cup {k} |-> IF x = k THEN v ELSE f[x]]

MapDel(f, k) == [x \in (DOMAIN f) \ {k} |-> f[x]]

\* put with the text index kept under one key for all threads
put_shared_index(s, text, label, replacement, t) ==
    [s EXCEPT !.rep[t]     = MapSet(@, replacement, [text |-> text, label |-> label]),
              !.reps[t]    = @ \cup {replacement},
              !.tex2rep    = [x \in ThreadIds |-> MapSet(@[x], text, replacement)],
              !.ctxs       = @ \cup {t}]

\* pipeline: SET rep key, SADD reps, HSET tex2rep, SADD ctxs
put(s, text, label, replacement, t) ==
    [s EXCEPT !.rep[t]     = MapSet(@, replacement, [text |-> text, label |-> label]),
              !.reps[t]    = @ \cup {replacement},
              !.tex2rep[t] = MapSet(@, text, replacement),
              !.ctxs       = @ \cup {t}]

\* INCR: the value after the increment (a missing key counts as 0)
inc_label_counter_value(s, label, t) ==
    IF label \in DOMAIN s.lc[t] THEN s.lc[t][label] + 1 ELSE 1

inc_label_counter(s, label, t) ==
    [s EXCEPT !.lc[t] = MapSet(@, label, inc_label_counter_value(s, label, t))]

exists(s, replacement, t) == replacement \in DOMAIN s.rep[t]

\* get_text: (text, label), or the ValueError when the record is missing
get_text(s, replacement, t) ==
    IF replacement \in DOMAIN s.rep[t] THEN s.rep[t][replacement] ELSE NoRecord

\* a lookup that never finds the text
get_replacement_miss(s, text, t) == None

\* get_replacement: HGET, where a missing field and an empty value both
\* come out as None
get_replacement(s, text, t) ==
    IF text \in DOMAIN s.tex2rep[t] /\ s.tex2rep[t][text] # <<>>
    THEN s.tex2rep[t][text]
    ELSE None

list_replacements(s, t) == s.reps[t]

\* delete raises ValueError when the record does not exist
delete_raises(s, replacement, t) == ~exists(s, replacement, t)

\* pipeline: DEL rep key, SREM reps, HDEL tex2rep (only for a non-empty
\* original text)
delete(s, replacement, t) ==
    LET original_text == s.rep[t][replacement].text
    IN  [s EXCEPT !.rep[t]     = MapDel(@, replacement),
                  !.reps[t]    = @ \ {replacement},
                  !.tex2rep[t] = IF original_text # <<>>
                                 THEN MapDel(@, original_text) ELSE @]

\* The keys clear removes for one thread: the record of every LISTED
\* placeholder, the set and the hash.
ClearThreadKeys(s, t) ==
    [s EXCEPT !.rep[t]     = [p \in (DOMAIN @) \ s.reps[t] |-> @[p]],
              !.reps[t]    = {},
              !.tex2rep[t] = EmptyMap]

\* clear(thread_id) that deletes the label counters of the thread as well
clear_with_counters(s, t) ==
    IF list_replacements(s, t) = {} THEN s
    ELSE [ClearThreadKeys(s, t) EXCEPT !.ctxs = @ \ {t}, !.lc[t] = EmptyMap]

\* clear(thread_id): nothing happens when the thread lists no placeholder
clear(s, t) ==
    IF list_replacements(s, t) = {} THEN s
    ELSE [ClearThreadKeys(s, t) EXCEPT !.ctxs = @ \ {t}]

RECURSIVE ClearThreads(_, _)
ClearThreads(s, ts) ==
    IF ts = {} THEN s
    ELSE LET t == CHOOSE x \in ts : TRUE
         IN  ClearThreads(ClearThreadKeys(s, t), ts \ {t})

\* clear(): every thread of ctxs, then ctxs itself
clear_all(s) ==
    IF s.ctxs = {} THEN s
    ELSE [ClearThreads(s, s.ctxs) EXCEPT !.ctxs = {}]

\* iterate_entries(thread_id): a tuple for every listed placeholder whose
\* record exists (get_text raising ValueError is skipped), in the order
\* SMEMBERS gives, here as a set
iterate_entries(s, t) ==
    {<<get_text(s, p, t).text, get_text(s, p, t).label, p, t>> :
        p \in {q \in list_replacements(s, t) : exists(s, q, t)}}

\* iterate_entries(): the threads are read from the key "contexts", which
\* no command of the store writes
iterate_entries_all(s) == UNION {iterate_entries(s, t) : t \in s.contexts}

\* len of a set read with SMEMBERS
RECURSIVE Card(_)
Card(S) == IF S = {} THEN 0 ELSE 1 + Card(S \ {CHOOSE x \in S : TRUE})

RECURSIVE TotalEntries(_, _)
TotalEntries(s, ts) ==
    IF ts = {} THEN 0
    ELSE LET t == CHOOSE x \in ts : TRUE
         IN  Card(list_replacements(s, t)) + TotalEntries(s, ts \ {t})

\* get_stats: the size of ctxs, and the sizes of the placeholder sets of
\* the threads of ctxs added up
get_stats(s) ==
    [contexts |-> Card(s.ctxs), total_entries |-> TotalEntries(s, s.ctxs)]

\* ------------------------------------------------------------------------
\* Replacer (BaseReplacer with PlaceholderReplacer.create_replacement)
\* An entity is [start, end, text, label]; start and end are 0-based and
\* half-open as in Python.
\* ------------------------------------------------------------------------
\* entity.label.replace(" ", "_").upper()
FormatLabel(label) ==
    [k \in 1..Len(label) |-> UpperChar(IF label[k] = " " THEN "_" ELSE label[k])]

\* create_replacement with the counter left out of the placeholder
create_replacement_no_counter(s, entity, t) ==
    <<"[">> \o FormatLabel(entity.label) \o <<"_">> \o Format02d(1) \o <<"]">>

\* f"[{formatted_label}_{counter:02d}]"; self.storage is the replacer's
\* entity storage
create_replacement(s, entity, t) ==
    <<"[">> \o FormatLabel(entity.label) \o <<"_">>
            \o Format02d(inc_label_counter_value(s, FormatLabel(entity.label), t))
            \o <<"]">>

\* the store after create_replacement (the counter moved)
create_replacement_store(s, entity, t) ==
    inc_label_counter(s, FormatLabel(entity.label), t)

\* One pass of the loop of replace, from entity number k on.  The result
\* carries the text, the store and the (original, placeholder) pairs used.
RECURSIVE ReplaceLoop(_, _, _, _, _, _, _)
ReplaceLoop(s, text, entities, t, k, text_offset, used) ==
    IF k > Len(entities)
    THEN [text |-> text, store |-> s, used |-> used]
    ELSE LET entity == entities[k]
             found  == get_replacement(s, entity.text, t)
             replacement == IF found = None
                            THEN create_replacement(s, entity, t) ELSE found
             s2 == IF found = None
                   THEN put(create_replacement_store(s, entity, t),
                            entity.text, entity.label, replacement, t)
                   ELSE s
             text2 == SliceTo(text, entity.start + text_offset) \o replacement
                      \o SliceFrom(text, entity.end + text_offset)
         IN  ReplaceLoop(s2, text2, entities, t, k + 1,
                         text_offset + Len(replacement) - Len(entity.text),
                         Append(used, <<entity.text, replacement>>))

replace(s, text, entities, t) == ReplaceLoop(s, text, entities, t, 1, 0, <<>>)

\* The loop of restore over the placeholders in the order `order`.
RECURSIVE RestoreLoop(_, _, _, _, _)
RestoreLoop(s, text, order, t, k) ==
    IF k > Len(order) THEN text
    ELSE LET replacement == order[k]
             text2 == IF Contains(text, replacement)
                      THEN StrReplace(text, replacement, get_text(s, replacement, t).text)
                      ELSE text
         IN  RestoreLoop(s, text2, order, t, k + 1)

\* The orders replacements.sort(key=len, reverse=True) can leave: SMEMBERS
\* returns the set in an arbitrary order and the sort is stable, so
\* placeholders of equal length stay in that arbitrary order.
\* the sort without reverse=True
IsSortedByLenAsc(order) ==
    \A i, j \in 1..Len(order) : i < j => Len(order[i]) <= Len(order[j])

IsSortedByLenDesc(order) ==
    \A i, j \in 1..Len(order) : i < j => Len(order[i]) >= Len(order[j])

RECURSIVE Orderings(_)
Orderings(S) ==
    IF S = {} THEN {<<>>}
    ELSE UNION {{<<x>> \o o : o \in Orderings(S \ {x})} : x \in S}

RestoreOrders(s, t) ==
    {o \in Orderings(list_replacements(s, t)) : IsSortedByLenDesc(o)}

restore(s, text, order, t) == RestoreLoop(s, text, order, t, 1)

\* ------------------------------------------------------------------------
\* Messages and tool calls
\* A message is [type, id, content, tool_calls] with type the class name; a
\* tool call is [id, name, args]; args is the sequence of the argument
\* values (texts without quote characters), the argument names left out.
\* ------------------------------------------------------------------------
NoId == "None"

Msg(type, id, content, tool_calls) ==
    [type |-> type, id |-> id, content |-> content, tool_calls |-> tool_calls]

ToolCall(id, name, args) == [id |-> id, name |-> name, args |-> args]

Quote == "\""

RECURSIVE DumpsValues(_, _)
DumpsValues(args, k) ==
    IF k > Len(args) THEN <<>>
    ELSE (IF k > 1 THEN <<",">> ELSE <<>>) \o <<Quote>> \o args[k] \o <<Quote>>
         \o DumpsValues(args, k + 1)

\* json.dumps(args): {"v1","v2"}
Dumps(args) == <<"{">> \o DumpsValues(args, 1) \o <<"}">>

\* position of the next quote at or after i, or 0
RECURSIVE NextQuote(_, _)
NextQuote(text, i) ==
    IF i > Len(text) THEN 0
    ELSE IF text[i] = Quote THEN i ELSE NextQuote(text, i + 1)

\* the values of the comma-separated quoted strings from position i on;
\* ok is FALSE when the text is not of that form
RECURSIVE ParseValues(_, _, _)
ParseValues(text, i, acc) ==
    IF i > Len(text) \/ text[i] # Quote THEN [ok |-> FALSE, args |-> <<>>]
    ELSE LET j == NextQuote(text, i + 1)
         IN  IF j = 0 THEN [ok |-> FALSE, args |-> <<>>]
             ELSE LET acc2 == Append(acc, SubSeq(text, i + 1, j - 1))
                  IN  IF j = Len(text) THEN [ok |-> TRUE, args |-> acc2]
                      ELSE IF text[j + 1] = ","
                           THEN ParseValues(text, j + 2, acc2)
                           ELSE [ok |-> FALSE, args |-> <<>>]

\* json.loads(text); ok is FALSE for the JSONDecodeError
Loads(text) ==
    IF Len(text) < 2 \/ text[1] # "{" \/ text[Len(text)] # "}"
    THEN [ok |-> FALSE, args |-> <<>>]
    ELSE IF Len(text) = 2 THEN [ok |-> TRUE, args |-> <<>>]
         ELSE ParseValues(SubSeq(text, 2, Len(text) - 1), 1, <<>>)

\* ------------------------------------------------------------------------
\* ValkeyConversationStorage
\*   conv:<t>:messages -> list, head = most recent    msgs[t]
\*   convs             -> set of threads              convs
\* ------------------------------------------------------------------------
EmptyConversationStore == [msgs |-> [t \in ThreadIds |-> <<>>], convs |-> {}]

Reverse(seq) == [k \in 1..Len(seq) |-> seq[Len(seq) + 1 - k]]

\* the stored JSON object: type, content, id (tool_calls is not a stored
\* field)
_serialize_message(m) == [type |-> m.type, content |-> m.content, id |-> m.id]

\* HumanMessage and AIMessage by name, every other type as HumanMessage
_deserialize_message(d) ==
    Msg(IF d.type = "HumanMessage" THEN "HumanMessage"
        ELSE IF d.type = "AIMessage" THEN "AIMessage"
        ELSE "HumanMessage",
        d.id, d.content, <<>>)

\* LRANGE key start stop, negative indices counting from the tail
LRange(list, start, stop) ==
    LET n  == Len(list)
        lo == IF start < 0 THEN Max(n + start, 0) ELSE start
        hi == IF stop < 0 THEN n + stop ELSE Min(stop, n - 1)
    IN  IF lo > hi THEN <<>> ELSE SubSeq(list, lo + 1, hi + 1)

\* RPUSH in place of LPUSH: the batch goes to the tail
store_encrypted_messages_rpush(c, t, messages) ==
    IF messages = <<>> THEN c
    ELSE [c EXCEPT !.msgs[t] =
                       @ \o [k \in 1..Len(messages) |-> _serialize_message(messages[k])],
                   !.convs = @ \cup {t}]

\* LPUSH key m1 m2 ...: each message in turn becomes the head
store_encrypted_messages(c, t, messages) ==
    IF messages = <<>> THEN c
    ELSE [c EXCEPT !.msgs[t] =
                       Reverse([k \in 1..Len(messages) |-> _serialize_message(messages[k])]) \o @,
                   !.convs = @ \cup {t}]

\* limit is None: LRANGE 0 -1, deserialised, reversed
get_encrypted_messages(c, t) ==
    LET message_strs == LRange(c.msgs[t], 0, -1)
    IN  Reverse([k \in 1..Len(message_strs) |-> _deserialize_message(message_strs[k])])

\* limit is an integer: LRANGE 0 limit-1, deserialised, reversed
get_encrypted_messages_limit(c, t, limit) ==
    LET message_strs == LRange(c.msgs[t], 0, limit - 1)
    IN  Reverse([k \in 1..Len(message_strs) |-> _deserialize_message(message_strs[k])])

clear_conversation(c, t) ==
    [c EXCEPT !.msgs[t] = <<>>, !.convs = @ \ {t}]

conversation_exists(c, t) == c.msgs[t] # <<>>

\* ------------------------------------------------------------------------
\* Inputs: originals, labels, payloads with the detector's verdict on them,
\* and texts handed to restore
\* ------------------------------------------------------------------------
An == <<"A", "n">>

Bo == <<"B", "o">>

Cy == <<"C", "y">>

\* an original that contains the placeholder P1
Pz == <<"P", "1", "z">>

P1 == <<"P", "1">>

P10 == <<"P", "1", "0">>

LabelP == <<"p">>

LabelI == <<"i">>

Ent(start, end, text, label) ==
    [start |-> start, end |-> end, text |-> text, label |-> label]

\* "An+Bo", entities in source order
PayloadSorted ==
    [text |-> An \o <<"+">> \o Bo,
     entities |-> <<Ent(0, 2, An, LabelP), Ent(3, 5, Bo, LabelI)>>]

\* "Bo+An", the later span listed first (RegexDetector lists pattern by
\* pattern, not by position)
PayloadUnsorted ==
    [text |-> Bo \o <<"+">> \o An,
     entities |-> <<Ent(3, 5, An, LabelP), Ent(0, 2, Bo, LabelI)>>]

\* "An"
PayloadOne == [text |-> An, entities |-> <<Ent(0, 2, An, LabelP)>>]

\* "Cy+An+Cy", one original at two spans
PayloadTwice ==
    [text |-> Cy \o <<"+">> \o An \o <<"+">> \o Cy,
     entities |-> <<Ent(0, 2, Cy, LabelP), Ent(3, 5, An, LabelP), Ent(6, 8, Cy, LabelP)>>]

ReplaceMenu == {PayloadSorted, PayloadUnsorted, PayloadOne, PayloadTwice}

\* a label with a character that is neither a letter, a digit nor a space
LabelDashed == <<"e", "-", "m">>

\* "Cy" under the label "e-m"
PayloadDashed == [text |-> Cy, entities |-> <<Ent(0, 2, Cy, LabelDashed)>>]

\* the payloads handed to the replacer on its own
ReplacerMenu == ReplaceMenu \cup {PayloadDashed}

\* "An+Bo" with the first entity's text one character longer than its span
\* (Entity does not tie text to start and end)
PayloadLong ==
    [text |-> An \o <<"+">> \o Bo,
     entities |-> <<Ent(0, 2, <<"A", "n", "n">>, LabelP), Ent(3, 5, Bo, LabelI)>>]

\* the payloads of replace, entities with any text included
SpliceMenu == ReplacerMenu \cup {PayloadLong}

\* entities pairwise disjoint
NonOverlapping(entities) ==
    \A i, j \in 1..Len(entities) :
        i # j => (entities[i].end <= entities[j].start \/ entities[j].end <= entities[i].start)

\* entities listed by increasing start
SortedByStart(entities) ==
    \A i, j \in 1..Len(entities) : i < j => entities[i].start <= entities[j].start

\* A text for restore is given by its segments: a placeholder occurrence
\* <<"ph", p>> or literal characters <<"lit", chars>>.
Ph(p) == <<"ph", p>>

Lit(chars) == <<"lit", chars>>

RECURSIVE Flatten(_)
Flatten(segs) ==
    IF segs = <<>> THEN <<>> ELSE Head(segs)[2] \o Flatten(Tail(segs))

StorePlaceholders == {P1, P10}

StoreTexts == {An, Bo, Pz}

StoreLabels == {LabelP}

RestoreMenu ==
    {<<Ph(P10), Lit(<<"+">>), Ph(P1)>>,
     <<Ph(P1), Lit(<<"+">>), Ph(P1)>>,
     <<Ph(<<"[", "P", "_", "0", "1", "]">>), Lit(<<"+">>), Ph(P10)>>}

StoreThreads == {"T1", "T2"}

\* ------------------------------------------------------------------------
\* Inputs of the wrapper: thread keys, the detector, histories, LLM replies
\* ------------------------------------------------------------------------
NoKey == "None"

Keys == {"k1", "k2"}

\* the empty string, a key like any other for _string_to_uuid
EmptyKey == ""

\* the keys handed to the wrapper's three entry points: a plain key, the
\* empty key, and the text of the UUID the empty key hashes to
WrapperKeys == {"k1", EmptyKey, "T0"}

\* UUID(md5(string.encode()).hexdigest())
Md5Uuid(string) ==
    IF string = "k1" THEN "T1" ELSE IF string = "k2" THEN "T2" ELSE "T0"

\* the detector's verdict on a text (a pure function of the text)
Detect(text) ==
    IF text = PayloadSorted.text THEN PayloadSorted.entities
    ELSE IF text = PayloadUnsorted.text THEN PayloadUnsorted.entities
    ELSE IF text = PayloadOne.text THEN PayloadOne.entities
    ELSE IF text = PayloadTwice.text THEN PayloadTwice.entities
    ELSE IF text = Dumps(<<An>>) THEN <<Ent(2, 4, An, LabelP)>>
    ELSE IF text = Dumps(<<Cy>>) THEN <<Ent(1, 5, <<Quote>> \o Cy \o <<Quote>>, LabelP)>>
    ELSE <<>>

\* a system prompt whose text the detector would flag
SysMsg == Msg("SystemMessage", "s1", An, <<>>)

UserSorted == Msg("HumanMessage", "m1", PayloadSorted.text, <<>>)

UserUnsorted == Msg("HumanMessage", "m2", PayloadUnsorted.text, <<>>)

UserPlain == Msg("HumanMessage", NoId, <<"h", "i">>, <<>>)

AiTool == Msg("AIMessage", "a1", <<"o", "k">>, <<ToolCall("tc1", "send", <<An>>)>>)

AiToolNoId == Msg("AIMessage", "a2", <<"o", "k">>, <<ToolCall(NoId, "send", <<An>>)>>)

\* a tool call on whose arguments the detector reports a span that takes
\* in the quotes of the JSON string
AiToolQuoted == Msg("AIMessage", "a3", <<>>, <<ToolCall("tc3", "send", <<Cy>>)>>)

Histories ==
    {<<SysMsg, UserSorted>>,
     <<SysMsg, UserSorted, AiTool, UserUnsorted>>,
     <<UserUnsorted>>,
     <<UserPlain, AiToolNoId>>,
     <<AiToolQuoted>>}

PlaceholderP01 == <<"[", "P", "_", "0", "1", "]">>

ReplyPlain == Msg("AIMessage", "r1", <<"o", "k">>, <<>>)

ReplyPlaceholder == Msg("AIMessage", "r2", PlaceholderP01 \o <<"!">>, <<>>)

ReplyTool == Msg("AIMessage", "r3", <<>>, <<ToolCall("tc9", "send", <<PlaceholderP01>>)>>)

LLMReplies == {ReplyPlain, ReplyPlaceholder, ReplyTool}

\* the result of a tool call
ToolResult == Msg("ToolMessage", "t1", <<"4", "2">>, <<>>)

\* batches handed to store_encrypted_messages, one of each kind of message
Batches ==
    {<<>>,
     <<UserSorted>>,
     <<UserUnsorted, ReplyPlain>>,
     <<AiTool, ToolResult>>,
     <<SysMsg>>}

\* largest limit handed to get_encrypted_messages
MaxLimit == 3

Limits == 0..MaxLimit

\* ------------------------------------------------------------------------
\* PrivacyEnabledChatModel
\* ------------------------------------------------------------------------
\* UUID(string), or the md5 of a string that is not a UUID
_string_to_uuid(string) ==
    IF string = NoKey THEN NoKey
    ELSE IF string \in ThreadIds THEN string
    ELSE Md5Uuid(string)

\* PrivacyEnabledChatModel.get_encrypted_messages with limit None (lines
\* 172-187): nothing for no key or an empty key, else the messages of
\* UUID(thread_id) or of the md5 UUID
wrapper_get_encrypted_messages(c, thread_id) ==
    IF thread_id = NoKey \/ thread_id = EmptyKey THEN <<>>
    ELSE IF thread_id \in ThreadIds THEN get_encrypted_messages(c, thread_id)
    ELSE get_encrypted_messages(c, Md5Uuid(thread_id))

\* PrivacyEnabledChatModel.clear_conversation (lines 199-210)
wrapper_clear_conversation(c, thread_id) ==
    IF thread_id = NoKey \/ thread_id = EmptyKey THEN c
    ELSE IF thread_id \in ThreadIds THEN clear_conversation(c, thread_id)
    ELSE clear_conversation(c, Md5Uuid(thread_id))

\* all messages, whatever the store holds
NewMessagesAll(existing, messages) == messages

\* messages[num_protected_messages:] when the store holds fewer messages
NewMessages(existing, messages) ==
    IF Len(existing) < Len(messages)
    THEN SubSeq(messages, Len(existing) + 1, Len(messages))
    ELSE <<>>

\* str(uuid4()) for the j-th message of a turn
GenId(turn, j) == "g" \o ToString(turn) \o "_" \o ToString(j)

\* transformed_texts[key] = text on a dict kept as a sequence of pairs: an
\* existing key keeps its position
DictSet(d, key, text) ==
    IF \E k \in 1..Len(d) : d[k][1] = key
    THEN [k \in 1..Len(d) |-> IF d[k][1] = key THEN <<key, text>> ELSE d[k]]
    ELSE Append(d, <<key, text>>)

\* the loop over the tool calls of one message in _detect_entities
RECURSIVE DetectToolCalls(_, _, _)
DetectToolCalls(tool_calls, k, texts) ==
    IF k > Len(tool_calls) THEN [raised |-> FALSE, texts |-> texts]
    ELSE IF tool_calls[k].id = NoId THEN [raised |-> TRUE, texts |-> texts]
         ELSE DetectToolCalls(tool_calls, k + 1,
                              DictSet(texts, tool_calls[k].id, Dumps(tool_calls[k].args)))

\* the loop over the messages in _detect_entities
RECURSIVE DetectMessages(_, _, _, _, _)
DetectMessages(messages, turn, j, transformed, texts) ==
    IF j > Len(messages)
    THEN [raised |-> FALSE, messages |-> transformed, texts |-> texts]
    ELSE LET m  == messages[j]
             tm == IF m.id = NoId THEN [m EXCEPT !.id = GenId(turn, j)] ELSE m
             transformed2 == Append(transformed, tm)
         IN  IF m.type = "SystemMessage"
             THEN DetectMessages(messages, turn, j + 1, transformed2, texts)
             ELSE LET texts2 == DictSet(texts, tm.id, tm.content)
                  IN  IF tm.type # "AIMessage" \/ Len(tm.tool_calls) = 0
                      THEN DetectMessages(messages, turn, j + 1, transformed2, texts2)
                      ELSE LET tc == DetectToolCalls(tm.tool_calls, 1, texts2)
                           IN  IF tc.raised
                               THEN [raised |-> TRUE, messages |-> <<>>, texts |-> <<>>]
                               ELSE DetectMessages(messages, turn, j + 1, transformed2, tc.texts)

\* _detect_entities: the transformed messages and detector_outputs_by_uuid,
\* the detector's results zipped with the keys, empty results filtered out
_detect_entities(messages, turn) ==
    LET d == DetectMessages(messages, turn, 1, <<>>, <<>>)
        keys == {d.texts[k][1] : k \in 1..Len(d.texts)}
        result(key) == Detect(d.texts[CHOOSE k \in 1..Len(d.texts) : d.texts[k][1] = key][2])
    IN  [raised |-> d.raised,
         messages |-> d.messages,
         texts |-> d.texts,
         outputs |-> [key \in {x \in keys : Len(result(x)) > 0} |-> result(key)]]

\* the (payload, entities) pairs _replace_entities hands to replace: the
\* content of a message under the entry of its id, the dumped arguments of
\* a tool call under the entry of its id
ReplaceCalls(messages, outputs) ==
    {<<messages[j].content, outputs[messages[j].id]>> :
        j \in {i \in 1..Len(messages) : messages[i].id \in DOMAIN outputs}}
    \cup
    UNION {{<<Dumps(messages[j].tool_calls[k].args), outputs[messages[j].tool_calls[k].id]>> :
               k \in {i \in 1..Len(messages[j].tool_calls) :
                          messages[j].tool_calls[i].id \in DOMAIN outputs}} :
           j \in {i \in 1..Len(messages) : messages[i].type = "AIMessage"}}

\* the loop over the tool calls of one message in _replace_entities
RECURSIVE ReplaceToolCalls(_, _, _, _, _, _, _)
ReplaceToolCalls(s, tool_calls, outputs, t, k, done, used) ==
    IF k > Len(tool_calls)
    THEN [raised |-> FALSE, tool_calls |-> done, store |-> s, used |-> used]
    ELSE LET tc == tool_calls[k]
         IN  IF tc.id = NoId
             THEN [raised |-> TRUE, tool_calls |-> done, store |-> s, used |-> used]
             ELSE IF tc.id \in DOMAIN outputs
                  THEN LET r == replace(s, Dumps(tc.args), outputs[tc.id], t)
                           parsed == Loads(r.text)
                       IN  IF ~parsed.ok
                           THEN [raised |-> TRUE, tool_calls |-> done,
                                 store |-> r.store, used |-> used \o r.used]
                           ELSE ReplaceToolCalls(r.store, tool_calls, outputs, t, k + 1,
                                                 Append(done, [tc EXCEPT !.args = parsed.args]),
                                                 used \o r.used)
                  ELSE ReplaceToolCalls(s, tool_calls, outputs, t, k + 1,
                                        Append(done, tc), used)

\* the loop over the messages in _replace_entities
RECURSIVE ReplaceMessages(_, _, _, _, _, _, _)
ReplaceMessages(s, messages, outputs, t, j, done, used) ==
    IF j > Len(messages)
    THEN [raised |-> FALSE, messages |-> done, store |-> s, used |-> used]
    ELSE LET m == messages[j]
         IN  IF m.id = NoId
             THEN [raised |-> TRUE, messages |-> done, store |-> s, used |-> used]
             ELSE LET hit == m.id \in DOMAIN outputs
                      r   == replace(s, m.content, IF hit THEN outputs[m.id] ELSE <<>>, t)
                      m2  == IF hit THEN [m EXCEPT !.content = r.text] ELSE m
                      s2  == IF hit THEN r.store ELSE s
                      u2  == IF hit THEN used \o r.used ELSE used
                  IN  IF m.type = "AIMessage" /\ Len(m.tool_calls) > 0
                      THEN LET tc == ReplaceToolCalls(s2, m.tool_calls, outputs, t, 1, <<>>, u2)
                           IN  IF tc.raised
                               THEN [raised |-> TRUE, messages |-> done,
                                     store |-> tc.store, used |-> tc.used]
                               ELSE ReplaceMessages(tc.store, messages, outputs, t, j + 1,
                                                    Append(done, [m2 EXCEPT !.tool_calls = tc.tool_calls]),
                                                    tc.used)
                      ELSE ReplaceMessages(s2, messages, outputs, t, j + 1, Append(done, m2), u2)

_replace_entities(s, messages, outputs, t) ==
    ReplaceMessages(s, messages, outputs, t, 1, <<>>, <<>>)

\* the loop over the tool calls in _restore_entities
RECURSIVE RestoreToolCalls(_, _, _, _, _, _)
RestoreToolCalls(s, tool_calls, order, t, k, done) ==
    IF k > Len(tool_calls) THEN [raised |-> FALSE, tool_calls |-> done]
    ELSE LET parsed == Loads(restore(s, Dumps(tool_calls[k].args), order, t))
         IN  IF ~parsed.ok THEN [raised |-> TRUE, tool_calls |-> done]
             ELSE RestoreToolCalls(s, tool_calls, order, t, k + 1,
                                   Append(done, [tool_calls[k] EXCEPT !.args = parsed.args]))

_restore_entities(s, message, order, t) ==
    LET content == restore(s, message.content, order, t)
        tc == IF message.type = "AIMessage" /\ Len(message.tool_calls) > 0
              THEN RestoreToolCalls(s, message.tool_calls, order, t, 1, <<>>)
              ELSE [raised |-> FALSE, tool_calls |-> message.tool_calls]
    IN  [raised |-> tc.raised,
         message |-> [message EXCEPT !.content = content, !.tool_calls = tc.tool_calls]]

\* ------------------------------------------------------------------------
\* PseudonymReplacer: one Faker instance per replacer, shared by every call
\* The generator is [seed, n]: the seed it was last given and the number of
\* values drawn since.
\* ------------------------------------------------------------------------
NoSeed == "none"

\* Faker(locale): not seeded yet
NewFaker == [seed |-> NoSeed, n |-> 0]

\* self.faker.seed_instance(thread_id.int)
seed_instance(f, t) == [seed |-> t, n |-> 0]

\* the value the replacement function returns: a function of the seed, of
\* the number of values drawn since the seed and of the label
FakerValue(f, label) == <<"#">> \o label \o <<f.seed, ToString(f.n)>>

\* the generator after a value was drawn
FakerDrawn(f) == [f EXCEPT !.n = @ + 1]

\* create_replacement run without interruption: seed, then draw
pseudonym_create_replacement(entity, t) == FakerValue(seed_instance(NewFaker, t), entity.label)

\* BaseReplacer.replace with the pseudonym replacer, run without
\* interruption
RECURSIVE PseudonymLoop(_, _, _, _, _, _)
PseudonymLoop(s, text, entities, t, k, text_offset) ==
    IF k > Len(entities)
    THEN [text |-> text, store |-> s]
    ELSE LET entity == entities[k]
             found  == get_replacement(s, entity.text, t)
             replacement == IF found = None
                            THEN pseudonym_create_replacement(entity, t) ELSE found
             s2 == IF found = None
                   THEN put(s, entity.text, entity.label, replacement, t) ELSE s
             text2 == SliceTo(text, entity.start + text_offset) \o replacement
                      \o SliceFrom(text, entity.end + text_offset)
         IN  PseudonymLoop(s2, text2, entities, t, k + 1,
                           text_offset + Len(replacement) - Len(entity.text))

pseudonym_replace(s, text, entities, t) == PseudonymLoop(s, text, entities, t, 1, 0)

\* calls that run at the same time, each on a thread of its own
Workers == {"w1", "w2"}

WorkerThread(w) == IF w = "w1" THEN "T1" ELSE "T2"

\* a call of replace: its position, its arguments and its locals
IdleWorker ==
    [pc |-> "idle", payload |-> [text |-> <<>>, entities |-> <<>>], k |-> 0,
     text |-> <<>>, text_offset |-> 0, replacement |-> <<>>]

\* ------------------------------------------------------------------------
\* RemoteGlinerDetector: _call_api_and_validate under
\* @retry(on=HTTPError, attempts=3)
\* ------------------------------------------------------------------------
\* attempts=3
Attempts == 3

\* calls of batch in one run
MaxCalls == 3

\* texts sent to the detector
DetectorTexts ==
    {PayloadSorted.text, PayloadUnsorted.text, PayloadOne.text, <<"h", "i">>}

\* a call of batch: its position, its text, the outcome of each attempt so
\* far and the result returned
IdleDetector ==
    [pc |-> "idle", ncalls |-> 0, input |-> <<>>, tries |-> <<>>, result |-> <<>>]

\* a call of clear() with no thread: its position, the threads SMEMBERS
\* ctxs gave, those whose placeholders are still to be listed, and the
\* placeholders listed for each
IdleClear ==
    [pc |-> "idle", contexts |-> {}, todo |-> {}, listed |-> [t \in ThreadIds |-> {}]]

\* ------------------------------------------------------------------------
\* State
\* ------------------------------------------------------------------------
VARIABLES es, conv, calls, lastOp, nops, lastTurn, prevTurn, nturns, issued, assigned,
          workers, faker, det, clr

vars == <<es, conv, calls, lastOp, nops, lastTurn, prevTurn, nturns, issued, assigned,
          workers, faker, det, clr>>

\* what the store operations and _generate leave alone
parVars == <<workers, faker, det, clr>>

storeVars == <<es, lastOp, nops, issued, assigned>>

wrapperVars == <<conv, calls, lastTurn, prevTurn, nturns>>

Callers == {"c1"}

NoMsg == Msg("None", NoId, <<>>, <<>>)

\* a call of _generate: its position, its arguments and its locals, and the
\* two stores as they were when it began
IdleCall ==
    [pc |-> "idle", turn |-> 0, key |-> NoKey, tid |-> "none", H |-> <<>>,
     P |-> <<>>, N |-> <<>>, detected |-> FALSE, Nt |-> <<>>, outputs |-> EmptyMap,
     Nr |-> <<>>,
     used |-> <<>>, invoked |-> FALSE, llm_in |-> <<>>, R |-> NoMsg,
     es0 |-> EmptyEntityStore, conv0 |-> EmptyConversationStore]

\* how a call ended
NoTurn ==
    [status |-> "none", failedAt |-> "none", returned |-> NoMsg, call |-> IdleCall]

\* what the last operation was given and what it returned
NoOp == [op |-> "none", thread |-> "none", text |-> <<>>, segs |-> <<>>,
         entities |-> <<>>, out |-> <<>>, used |-> <<>>, back |-> {}, raised |-> FALSE,
         messages |-> <<>>, limit |-> 0, key |-> NoKey,
         stats |-> [contexts |-> 0, total_entries |-> 0], entries |-> {}]

\* the counter of label l in thread t, 0 for a key that does not exist
CounterOf(s, t, l) == IF l \in DOMAIN s.lc[t] THEN s.lc[t][l] ELSE 0

\* issued[t][l] is the set of values inc_label_counter has returned for
\* (l, t); a step from store s to store s2 by INCRs returned the values
\* above the old counter up to the new one
Issue(iss, s, s2) ==
    [t \in ThreadIds |->
        [l \in (DOMAIN iss[t]) \cup (DOMAIN s2.lc[t]) |->
            (IF l \in DOMAIN iss[t] THEN iss[t][l] ELSE {})
                \cup ((CounterOf(s, t, l) + 1)..CounterOf(s2, t, l))]]

\* assigned[t] is the set of (original, placeholder) pairs a record of
\* thread t has held at the end of an operation of the store or the replacer
Assign(a, s2) ==
    [t \in ThreadIds |-> a[t] \cup {<<s2.rep[t][p].text, p>> : p \in DOMAIN s2.rep[t]}]

CountersWithin(s) ==
    \A t \in ThreadIds : \A l \in DOMAIN s.lc[t] : s.lc[t][l] <= MaxCounter

Init ==
    /\ es = EmptyEntityStore
    /\ conv = EmptyConversationStore
    /\ calls = [c \in Callers |-> IdleCall]
    /\ lastOp = NoOp
    /\ nops = 0
    /\ lastTurn = NoTurn
    /\ prevTurn = NoTurn
    /\ nturns = 0
    /\ issued = [t \in ThreadIds |-> EmptyMap]
    /\ assigned = [t \in ThreadIds |-> {}]
    /\ workers = [w \in Workers |-> IdleWorker]
    /\ faker = NewFaker
    /\ det = IdleDetector
    /\ clr = IdleClear

\* ------------------------------------------------------------------------
\* Operations of the entity store, called directly
\* ------------------------------------------------------------------------
\* a put cut off after SET and SADD: the record and the set entry are
\* written, the text index is not
StorePutHalf(t, text, label, replacement) ==
    /\ nops < MaxOps
    /\ es' = [es EXCEPT !.rep[t]  = MapSet(@, replacement, [text |-> text, label |-> label]),
                        !.reps[t] = @ \cup {replacement}]
    /\ issued' = Issue(issued, es, es')
    /\ assigned' = Assign(assigned, es')
    /\ lastOp' = [NoOp EXCEPT !.op = "put", !.thread = t, !.text = text, !.out = replacement]
    /\ nops' = nops + 1
    /\ UNCHANGED <<wrapperVars, parVars>>

\* put: the four commands of the pipeline take effect in one step (MULTI/EXEC)
StorePut(t, text, label, replacement) ==
    /\ nops < MaxOps
    /\ es' = put(es, text, label, replacement, t)
    /\ issued' = Issue(issued, es, es')
    /\ assigned' = Assign(assigned, es')
    /\ lastOp' = [NoOp EXCEPT !.op = "put", !.thread = t, !.text = text, !.out = replacement]
    /\ nops' = nops + 1
    /\ UNCHANGED <<wrapperVars, parVars>>

\* delete that returns quietly when the record does not exist
StoreDeleteQuiet(t, replacement) ==
    /\ nops < MaxOps
    /\ es' = IF delete_raises(es, replacement, t) THEN es ELSE delete(es, replacement, t)
    /\ issued' = Issue(issued, es, es')
    /\ assigned' = Assign(assigned, es')
    /\ lastOp' = [NoOp EXCEPT !.op = "delete", !.thread = t, !.out = replacement]
    /\ nops' = nops + 1
    /\ UNCHANGED <<wrapperVars, parVars>>

\* delete: raises ValueError when the record does not exist (lines 94-95),
\* else the pipeline of lines 105-114
StoreDelete(t, replacement) ==
    /\ nops < MaxOps
    /\ es' = IF delete_raises(es, replacement, t) THEN es ELSE delete(es, replacement, t)
    /\ issued' = Issue(issued, es, es')
    /\ assigned' = Assign(assigned, es')
    /\ lastOp' = [NoOp EXCEPT !.op = "delete", !.thread = t, !.out = replacement,
                              !.raised = delete_raises(es, replacement, t)]
    /\ nops' = nops + 1
    /\ UNCHANGED <<wrapperVars, parVars>>

StoreClear(t) ==
    /\ nops < MaxOps
    /\ es' = clear(es, t)
    /\ issued' = Issue(issued, es, es')
    /\ assigned' = Assign(assigned, es')
    /\ lastOp' = [NoOp EXCEPT !.op = "clear", !.thread = t]
    /\ nops' = nops + 1
    /\ UNCHANGED <<wrapperVars, parVars>>

StoreClearAll ==
    /\ nops < MaxOps
    /\ es' = clear_all(es)
    /\ issued' = Issue(issued, es, es')
    /\ assigned' = Assign(assigned, es')
    /\ lastOp' = [NoOp EXCEPT !.op = "clear_all"]
    /\ nops' = nops + 1
    /\ UNCHANGED <<wrapperVars, parVars>>

StoreInc(t, label) ==
    /\ nops < MaxOps
    /\ es' = inc_label_counter(es, label, t)
    /\ issued' = Issue(issued, es, es')
    /\ assigned' = Assign(assigned, es')
    /\ CountersWithin(es')
    /\ lastOp' = [NoOp EXCEPT !.op = "inc", !.thread = t, !.text = label,
                              !.out = Decimal(inc_label_counter_value(es, label, t))]
    /\ nops' = nops + 1
    /\ UNCHANGED <<wrapperVars, parVars>>

\* ------------------------------------------------------------------------
\* Operations of the replacer, called directly
\* ------------------------------------------------------------------------
DoReplace(t, payload) ==
    LET r == replace(es, payload.text, payload.entities, t)
    IN  /\ nops < MaxOps
        /\ CountersWithin(r.store)
        /\ es' = r.store
        /\ issued' = Issue(issued, es, es')
        /\ assigned' = Assign(assigned, es')
        /\ lastOp' = [NoOp EXCEPT !.op = "replace", !.thread = t, !.text = payload.text,
                                  !.entities = payload.entities, !.out = r.text,
                                  !.used = r.used,
                                  !.back = {restore(r.store, r.text, o, t) :
                                              o \in RestoreOrders(r.store, t)}]
        /\ nops' = nops + 1
        /\ UNCHANGED <<wrapperVars, parVars>>
    /\ UNCHANGED <<wrapperVars, parVars>>

DoRestore(t, segs) ==
    \E order \in RestoreOrders(es, t) :
        /\ nops < MaxOps
        /\ es' = es
        /\ issued' = issued
        /\ assigned' = assigned
        /\ lastOp' = [NoOp EXCEPT !.op = "restore", !.thread = t, !.text = Flatten(segs),
                                  !.segs = segs,
                                  !.out = restore(es, Flatten(segs), order, t)]
        /\ nops' = nops + 1
        /\ UNCHANGED <<wrapperVars, parVars>>
    /\ UNCHANGED <<wrapperVars, parVars>>

\* ------------------------------------------------------------------------
\* Operations of the conversation store, called directly
\* ------------------------------------------------------------------------
ConvAppend(t, messages) ==
    /\ nops < MaxOps
    /\ conv' = store_encrypted_messages(conv, t, messages)
    /\ lastOp' = [NoOp EXCEPT !.op = "append", !.thread = t, !.messages = messages]
    /\ nops' = nops + 1
    /\ UNCHANGED <<es, calls, lastTurn, prevTurn, nturns, issued, assigned, parVars>>

ConvRead(t, limit) ==
    /\ nops < MaxOps
    /\ lastOp' = [NoOp EXCEPT !.op = "read", !.thread = t, !.limit = limit,
                              !.messages = get_encrypted_messages_limit(conv, t, limit)]
    /\ nops' = nops + 1
    /\ UNCHANGED <<es, conv, calls, lastTurn, prevTurn, nturns, issued, assigned, parVars>>

ConvReadAll(t) ==
    /\ nops < MaxOps
    /\ lastOp' = [NoOp EXCEPT !.op = "read_all", !.thread = t,
                              !.messages = get_encrypted_messages(conv, t)]
    /\ nops' = nops + 1
    /\ UNCHANGED <<es, conv, calls, lastTurn, prevTurn, nturns, issued, assigned, parVars>>

ConvClear(t) ==
    /\ nops < MaxOps
    /\ conv' = clear_conversation(conv, t)
    /\ lastOp' = [NoOp EXCEPT !.op = "clear_conversation", !.thread = t]
    /\ nops' = nops + 1
    /\ UNCHANGED <<es, calls, lastTurn, prevTurn, nturns, issued, assigned, parVars>>

\* ------------------------------------------------------------------------
\* The entity store under put, delete, clear and get_stats alone, on two
\* originals and one placeholder per thread
\* ------------------------------------------------------------------------
MaxMapOps == 4

MapTexts == {An, Bo}

MapPlaceholders == {P1}

MapPut(t, text, label, replacement) ==
    /\ nops < MaxMapOps
    /\ es' = put(es, text, label, replacement, t)
    /\ issued' = Issue(issued, es, es')
    /\ assigned' = Assign(assigned, es')
    /\ lastOp' = [NoOp EXCEPT !.op = "put", !.thread = t, !.text = text, !.out = replacement]
    /\ nops' = nops + 1
    /\ UNCHANGED <<wrapperVars, parVars>>

MapDelete(t, replacement) ==
    /\ nops < MaxMapOps
    /\ es' = IF delete_raises(es, replacement, t) THEN es ELSE delete(es, replacement, t)
    /\ issued' = Issue(issued, es, es')
    /\ assigned' = Assign(assigned, es')
    /\ lastOp' = [NoOp EXCEPT !.op = "delete", !.thread = t, !.out = replacement,
                              !.raised = delete_raises(es, replacement, t)]
    /\ nops' = nops + 1
    /\ UNCHANGED <<wrapperVars, parVars>>

MapClear(t) ==
    /\ nops < MaxMapOps
    /\ es' = clear(es, t)
    /\ issued' = Issue(issued, es, es')
    /\ assigned' = Assign(assigned, es')
    /\ lastOp' = [NoOp EXCEPT !.op = "clear", !.thread = t]
    /\ nops' = nops + 1
    /\ UNCHANGED <<wrapperVars, parVars>>

MapClearAll ==
    /\ nops < MaxMapOps
    /\ es' = clear_all(es)
    /\ issued' = Issue(issued, es, es')
    /\ assigned' = Assign(assigned, es')
    /\ lastOp' = [NoOp EXCEPT !.op = "clear_all"]
    /\ nops' = nops + 1
    /\ UNCHANGED <<wrapperVars, parVars>>

MapStats ==
    /\ nops < MaxMapOps
    /\ lastOp' = [NoOp EXCEPT !.op = "get_stats", !.stats = get_stats(es)]
    /\ nops' = nops + 1
    /\ UNCHANGED <<es, issued, assigned, wrapperVars, parVars>>

MapIterate(t) ==
    /\ nops < MaxMapOps
    /\ lastOp' = [NoOp EXCEPT !.op = "iterate_entries", !.thread = t,
                              !.entries = iterate_entries(es, t)]
    /\ nops' = nops + 1
    /\ UNCHANGED <<es, issued, assigned, wrapperVars, parVars>>

MapIterateAll ==
    /\ nops < MaxMapOps
    /\ lastOp' = [NoOp EXCEPT !.op = "iterate_entries_all",
                              !.entries = iterate_entries_all(es)]
    /\ nops' = nops + 1
    /\ UNCHANGED <<es, issued, assigned, wrapperVars, parVars>>

\* the wrapper's get_encrypted_messages and clear_conversation
WrapperRead(key) ==
    /\ nops < MaxOps
    /\ lastOp' = [NoOp EXCEPT !.op = "wrapper_read", !.key = key,
                              !.messages = wrapper_get_encrypted_messages(conv, key)]
    /\ nops' = nops + 1
    /\ UNCHANGED <<es, conv, calls, lastTurn, prevTurn, nturns, issued, assigned, parVars>>

WrapperClear(key) ==
    /\ nops < MaxOps
    /\ conv' = wrapper_clear_conversation(conv, key)
    /\ lastOp' = [NoOp EXCEPT !.op = "wrapper_clear", !.key = key]
    /\ nops' = nops + 1
    /\ UNCHANGED <<es, calls, lastTurn, prevTurn, nturns, issued, assigned, parVars>>

\* ------------------------------------------------------------------------
\* BaseReplacer.replace with the pseudonym replacer, one action per store
\* call and per call on the generator
\* ------------------------------------------------------------------------
ParFrame == UNCHANGED <<conv, calls, lastOp, nops, lastTurn, prevTurn, nturns, issued, assigned, det, clr>>

\* lines 80-84 of replace: splice the replacement in, go to the next entity
Spliced(wk, replacement) ==
    LET entity == wk.payload.entities[wk.k]
    IN  [wk EXCEPT !.text = SliceTo(wk.text, entity.start + wk.text_offset) \o replacement
                             \o SliceFrom(wk.text, entity.end + wk.text_offset),
                   !.text_offset = @ + Len(replacement) - Len(entity.text),
                   !.k = @ + 1,
                   !.replacement = <<>>,
                   !.pc = IF wk.k + 1 > Len(wk.payload.entities) THEN "done" ELSE "lookup"]

ParBegin(w, payload) ==
    /\ workers[w].pc = "idle"
    /\ workers' = [workers EXCEPT ![w] =
           [IdleWorker EXCEPT !.pc = IF payload.entities = <<>> THEN "done" ELSE "lookup",
                              !.payload = payload, !.k = 1, !.text = payload.text]]
    /\ UNCHANGED <<es, faker>>
    /\ ParFrame

\* get_replacement: a known original is spliced in at once
ParLookup(w) ==
    /\ workers[w].pc = "lookup"
    /\ LET entity == workers[w].payload.entities[workers[w].k]
           found == get_replacement(es, entity.text, WorkerThread(w))
       IN  workers' = [workers EXCEPT ![w] =
               IF found = None THEN [@ EXCEPT !.pc = "seed"] ELSE Spliced(@, found)]
    /\ UNCHANGED <<es, faker>>
    /\ ParFrame

\* pseudonym.py line 47
ParSeed(w) ==
    /\ workers[w].pc = "seed"
    /\ faker' = seed_instance(faker, WorkerThread(w))
    /\ workers' = [workers EXCEPT ![w].pc = "draw"]
    /\ UNCHANGED es
    /\ ParFrame

\* pseudonym.py line 53
ParDraw(w) ==
    /\ workers[w].pc = "draw"
    /\ LET entity == workers[w].payload.entities[workers[w].k]
       IN  workers' = [workers EXCEPT ![w].pc = "put",
                                      ![w].replacement = FakerValue(faker, entity.label)]
    /\ faker' = FakerDrawn(faker)
    /\ UNCHANGED es
    /\ ParFrame

\* entity_storage.put, then the splice
ParPut(w) ==
    /\ workers[w].pc = "put"
    /\ LET entity == workers[w].payload.entities[workers[w].k]
       IN  es' = put(es, entity.text, entity.label, workers[w].replacement, WorkerThread(w))
    /\ workers' = [workers EXCEPT ![w] = Spliced(@, workers[w].replacement)]
    /\ UNCHANGED faker
    /\ ParFrame

\* ------------------------------------------------------------------------
\* BaseReplacer.replace with the numbered replacer, two calls on one thread,
\* one action per store command
\* ------------------------------------------------------------------------
RaceThread == "T1"

RaceFrame ==
    UNCHANGED <<conv, calls, lastOp, nops, lastTurn, prevTurn, nturns, det, faker, clr>>

RaceBegin(w, payload) ==
    /\ workers[w].pc = "idle"
    /\ workers' = [workers EXCEPT ![w] =
           [IdleWorker EXCEPT !.pc = IF payload.entities = <<>> THEN "done" ELSE "lookup",
                              !.payload = payload, !.k = 1, !.text = payload.text]]
    /\ UNCHANGED <<es, issued, assigned>>
    /\ RaceFrame

\* get_replacement (HGET): a known original is spliced in at once
RaceLookup(w) ==
    /\ workers[w].pc = "lookup"
    /\ LET entity == workers[w].payload.entities[workers[w].k]
           found == get_replacement(es, entity.text, RaceThread)
       IN  workers' = [workers EXCEPT ![w] =
               IF found = None THEN [@ EXCEPT !.pc = "create"] ELSE Spliced(@, found)]
    /\ UNCHANGED <<es, issued, assigned>>
    /\ RaceFrame

\* create_replacement (INCR)
RaceCreate(w) ==
    /\ workers[w].pc = "create"
    /\ LET entity == workers[w].payload.entities[workers[w].k]
       IN  /\ es' = create_replacement_store(es, entity, RaceThread)
           /\ workers' = [workers EXCEPT ![w].pc = "put",
                                          ![w].replacement = create_replacement(es, entity, RaceThread)]
    /\ CountersWithin(es')
    /\ issued' = Issue(issued, es, es')
    /\ assigned' = Assign(assigned, es')
    /\ RaceFrame

\* entity_storage.put (MULTI/EXEC), then the splice
RacePut(w) ==
    /\ workers[w].pc = "put"
    /\ LET entity == workers[w].payload.entities[workers[w].k]
       IN  es' = put(es, entity.text, entity.label, workers[w].replacement, RaceThread)
    /\ workers' = [workers EXCEPT ![w] = Spliced(@, workers[w].replacement)]
    /\ issued' = Issue(issued, es, es')
    /\ assigned' = Assign(assigned, es')
    /\ RaceFrame

\* ------------------------------------------------------------------------
\* clear() with no thread, one action per command sent outside the
\* pipeline and one for the pipeline
\* ------------------------------------------------------------------------
ClearFrame ==
    UNCHANGED <<conv, calls, lastOp, lastTurn, prevTurn, nturns, workers, faker, det>>

\* line 137: SMEMBERS ctxs; nothing more happens when it is empty
ClearAllBegin ==
    /\ clr.pc = "idle"
    /\ nops < MaxOps
    /\ nops' = nops + 1
    /\ clr' = IF es.ctxs = {} THEN IdleClear
              ELSE [IdleClear EXCEPT !.pc = "list", !.contexts = es.ctxs, !.todo = es.ctxs]
    /\ UNCHANGED <<es, issued, assigned>>
    /\ ClearFrame

\* line 145: list_replacements(ctx), sent on the client at once, not on the
\* pipeline
ClearAllList(ctx) ==
    /\ clr.pc = "list"
    /\ ctx \in clr.todo
    /\ clr' = [clr EXCEPT !.listed[ctx] = list_replacements(es, ctx),
                          !.todo = @ \ {ctx},
                          !.pc = IF clr.todo = {ctx} THEN "exec" ELSE "list"]
    /\ UNCHANGED <<es, nops, issued, assigned>>
    /\ ClearFrame

\* line 153: the pipeline runs: DEL of the records listed, of the sets and
\* hashes of the threads read, and of ctxs
ClearAllExec ==
    /\ clr.pc = "exec"
    /\ es' = [es EXCEPT
                 !.rep = [t \in ThreadIds |->
                             IF t \in clr.contexts
                             THEN [p \in (DOMAIN es.rep[t]) \ clr.listed[t] |-> es.rep[t][p]]
                             ELSE es.rep[t]],
                 !.reps = [t \in ThreadIds |-> IF t \in clr.contexts THEN {} ELSE es.reps[t]],
                 !.tex2rep = [t \in ThreadIds |->
                                 IF t \in clr.contexts THEN EmptyMap ELSE es.tex2rep[t]],
                 !.ctxs = {}]
    /\ clr' = IdleClear
    /\ issued' = Issue(issued, es, es')
    /\ assigned' = Assign(assigned, es')
    /\ UNCHANGED nops
    /\ ClearFrame

\* ------------------------------------------------------------------------
\* RemoteGlinerDetector.batch, one action per attempt
\* ------------------------------------------------------------------------
DetFrame ==
    UNCHANGED <<es, conv, calls, lastOp, nops, lastTurn, prevTurn, nturns, issued, assigned,
                workers, faker, clr>>

\* batch is called
DetBegin(text) ==
    /\ det.pc \in {"idle", "returned", "raised"}
    /\ det.ncalls < MaxCalls
    /\ det' = [IdleDetector EXCEPT !.pc = "call", !.ncalls = det.ncalls + 1, !.input = text]
    /\ DetFrame

\* lines 96-98: the request is answered and the answer is valid
DetAttemptOk ==
    /\ det.pc = "call"
    /\ det' = [det EXCEPT !.pc = "returned", !.tries = Append(@, "ok"),
                          !.result = Detect(det.input)]
    /\ DetFrame

\* an HTTPError that ends the call at the first failure
DetAttemptHttpErrorOnce ==
    /\ det.pc = "call"
    /\ det' = [det EXCEPT !.tries = Append(@, "HTTPError"), !.pc = "raised"]
    /\ DetFrame

\* post or raise_for_status raises an HTTPError: retried until the
\* attempts are used up, then re-raised
DetAttemptHttpError ==
    /\ det.pc = "call"
    /\ det' = [det EXCEPT !.tries = Append(@, "HTTPError"),
                          !.pc = IF Len(det.tries) + 1 >= Attempts THEN "raised" ELSE "call"]
    /\ DetFrame

\* model_validate raises: not an HTTPError, so it is not retried
DetAttemptInvalid ==
    /\ det.pc = "call"
    /\ det' = [det EXCEPT !.tries = Append(@, "ValidationError"), !.pc = "raised"]
    /\ DetFrame

\* ------------------------------------------------------------------------
\* _generate, one action per stretch between two external calls
\* ------------------------------------------------------------------------
Finish(c, status, failedAt, returned) ==
    /\ lastTurn' = [status |-> status, failedAt |-> failedAt, returned |-> returned,
                    call |-> calls[c]]
    /\ prevTurn' = lastTurn
    /\ calls' = [calls EXCEPT ![c] = IdleCall]

\* lines 73-103: resolve the thread id, read the stored messages, find the
\* new messages
Begin(c, key, H) ==
    LET turn == nturns + 1
        thread_id_uuid == IF _string_to_uuid(key) = NoKey
                          THEN FreshThread(turn) ELSE _string_to_uuid(key)
        existing == get_encrypted_messages(conv, thread_id_uuid)
        new_messages == NewMessages(existing, H)
    IN  /\ nturns < MaxTurns
        /\ \A d \in Callers : calls[d].pc = "idle"
        /\ nturns' = turn
        /\ calls' = [calls EXCEPT ![c] =
               [IdleCall EXCEPT !.pc = IF Len(new_messages) > 0 THEN "detect" ELSE "invoke",
                                !.turn = turn, !.key = key, !.tid = thread_id_uuid,
                                !.H = H, !.P = existing, !.N = new_messages,
                                !.es0 = es, !.conv0 = conv]]
        /\ UNCHANGED <<es, conv, lastTurn, prevTurn, storeVars, parVars>>

\* lines 109-115: _detect_entities returns
DetectStep(c) ==
    LET d == _detect_entities(calls[c].N, calls[c].turn)
    IN  /\ calls[c].pc = "detect"
        /\ ~d.raised
        /\ calls' = [calls EXCEPT ![c].pc = "replace", ![c].detected = TRUE,
                                  ![c].Nt = d.messages, ![c].outputs = d.outputs]
        /\ UNCHANGED <<es, conv, lastTurn, prevTurn, nturns, storeVars, parVars>>

\* the tool call without id is noticed only once the detector has run
DetectRaisesLate(c) ==
    /\ calls[c].pc = "detect"
    /\ _detect_entities(calls[c].N, calls[c].turn).raised
    /\ lastTurn' = [status |-> "error", failedAt |-> "detect", returned |-> NoMsg,
                    call |-> [calls[c] EXCEPT !.detected = TRUE]]
    /\ prevTurn' = lastTurn
    /\ calls' = [calls EXCEPT ![c] = IdleCall]
    /\ UNCHANGED <<es, conv, nturns, storeVars, parVars>>

\* _detect_entities raises: a tool call without id
DetectRaises(c) ==
    /\ calls[c].pc = "detect"
    /\ _detect_entities(calls[c].N, calls[c].turn).raised
    /\ Finish(c, "error", "detect", NoMsg)
    /\ UNCHANGED <<es, conv, nturns, storeVars, parVars>>

\* the detector raises and the new messages go to the model as they are
DetectorRaisesForwards(c) ==
    /\ calls[c].pc = "detect"
    /\ ~_detect_entities(calls[c].N, calls[c].turn).raised
    /\ calls' = [calls EXCEPT ![c].pc = "invoke", ![c].detected = TRUE,
                              ![c].Nr = calls[c].N]
    /\ UNCHANGED <<es, conv, lastTurn, prevTurn, nturns, storeVars, parVars>>

\* the detector raises (its retries exhausted): detector.batch is reached
\* once the texts are collected, line 294
DetectorRaises(c) ==
    /\ calls[c].pc = "detect"
    /\ ~_detect_entities(calls[c].N, calls[c].turn).raised
    /\ lastTurn' = [status |-> "error", failedAt |-> "detector", returned |-> NoMsg,
                    call |-> [calls[c] EXCEPT !.detected = TRUE]]
    /\ prevTurn' = lastTurn
    /\ calls' = [calls EXCEPT ![c] = IdleCall]
    /\ UNCHANGED <<es, conv, nturns, storeVars, parVars>>

\* lines 117-126: _replace_entities returns
ReplaceStep(c) ==
    LET r == _replace_entities(es, calls[c].Nt, calls[c].outputs, calls[c].tid)
    IN  /\ calls[c].pc = "replace"
        /\ ~r.raised
        /\ CountersWithin(r.store)
        /\ es' = r.store
        /\ issued' = Issue(issued, es, es')
        /\ assigned' = Assign(assigned, es')
        /\ calls' = [calls EXCEPT ![c].pc = "invoke", ![c].Nr = r.messages,
                                  ![c].used = r.used]
        /\ UNCHANGED <<conv, lastTurn, prevTurn, nturns, lastOp, nops, parVars>>

\* _replace_entities raises: the replaced arguments are no JSON any more;
\* what replace has put so far stays
ReplaceRaises(c) ==
    LET r == _replace_entities(es, calls[c].Nt, calls[c].outputs, calls[c].tid)
    IN  /\ calls[c].pc = "replace"
        /\ r.raised
        /\ CountersWithin(r.store)
        /\ es' = r.store
        /\ issued' = Issue(issued, es, es')
        /\ assigned' = Assign(assigned, es')
        /\ Finish(c, "error", "replace", NoMsg)
        /\ UNCHANGED <<conv, nturns, lastOp, nops, parVars>>

\* lines 128-136: the wrapped model is invoked and answers
InvokeStep(c, reply) ==
    /\ calls[c].pc = "invoke"
    /\ calls' = [calls EXCEPT ![c].pc = "store", ![c].invoked = TRUE,
                              ![c].llm_in = calls[c].P \o calls[c].Nr,
                              ![c].R = reply]
    /\ UNCHANGED <<es, conv, lastTurn, prevTurn, nturns, storeVars, parVars>>

\* the wrapped model raises after the new messages were stored
InvokeRaisesStored(c) ==
    /\ calls[c].pc = "invoke"
    /\ lastTurn' = [status |-> "error", failedAt |-> "invoke", returned |-> NoMsg,
                    call |-> [calls[c] EXCEPT !.invoked = TRUE,
                                              !.llm_in = calls[c].P \o calls[c].Nr]]
    /\ prevTurn' = lastTurn
    /\ calls' = [calls EXCEPT ![c] = IdleCall]
    /\ conv' = store_encrypted_messages(conv, calls[c].tid, calls[c].Nr)
    /\ UNCHANGED <<es, nturns, storeVars, parVars>>

\* the wrapped model raises
InvokeRaises(c) ==
    /\ calls[c].pc = "invoke"
    /\ lastTurn' = [status |-> "error", failedAt |-> "invoke", returned |-> NoMsg,
                    call |-> [calls[c] EXCEPT !.invoked = TRUE,
                                              !.llm_in = calls[c].P \o calls[c].Nr]]
    /\ prevTurn' = lastTurn
    /\ calls' = [calls EXCEPT ![c] = IdleCall]
    /\ UNCHANGED <<es, conv, nturns, storeVars, parVars>>

\* the store step with the messages as they were before the replacement
StoreStepRaw(c) ==
    /\ calls[c].pc = "store"
    /\ conv' = IF calls[c].Nr # <<>>
               THEN store_encrypted_messages(conv, calls[c].tid, calls[c].Nt \o <<calls[c].R>>)
               ELSE conv
    /\ calls' = [calls EXCEPT ![c].pc = "restore"]
    /\ UNCHANGED <<es, lastTurn, prevTurn, nturns, storeVars, parVars>>

\* lines 138-150: the new messages and the reply are stored; thread_id is
\* str(thread_id_uuid) by now when no key was given (line 82), and an
\* empty thread_id is falsy
StoreStep(c) ==
    /\ calls[c].pc = "store"
    /\ conv' = IF calls[c].Nr # <<>> /\ calls[c].key # EmptyKey
               THEN store_encrypted_messages(conv, calls[c].tid, calls[c].Nr \o <<calls[c].R>>)
               ELSE conv
    /\ calls' = [calls EXCEPT ![c].pc = "restore"]
    /\ UNCHANGED <<es, lastTurn, prevTurn, nturns, storeVars, parVars>>

\* the reply restored from the entity store as it was when the call began
RestoreStepEarly(c) ==
    /\ calls[c].pc = "restore"
    /\ \E order \in RestoreOrders(calls[c].es0, calls[c].tid) :
          LET r == _restore_entities(calls[c].es0, calls[c].R, order, calls[c].tid)
          IN  /\ ~r.raised
              /\ Finish(c, "ok", "none", r.message)
    /\ UNCHANGED <<es, conv, nturns, storeVars, parVars>>

\* lines 152-158: the reply is restored and returned
RestoreStep(c) ==
    /\ calls[c].pc = "restore"
    /\ \E order \in RestoreOrders(es, calls[c].tid) :
          LET r == _restore_entities(es, calls[c].R, order, calls[c].tid)
          IN  /\ ~r.raised
              /\ Finish(c, "ok", "none", r.message)
    /\ UNCHANGED <<es, conv, nturns, storeVars, parVars>>

\* _restore_entities raises: the restored arguments are no JSON any more
RestoreRaises(c) ==
    /\ calls[c].pc = "restore"
    /\ \E order \in RestoreOrders(es, calls[c].tid) :
          LET r == _restore_entities(es, calls[c].R, order, calls[c].tid)
          IN  /\ r.raised
              /\ Finish(c, "error", "restore", NoMsg)
    /\ UNCHANGED <<es, conv, nturns, storeVars, parVars>>

Next ==
    \/ \E c \in Callers, key \in Keys \cup {NoKey}, H \in Histories : Begin(c, key, H)
    \/ \E c \in Callers : DetectStep(c)
    \/ \E c \in Callers : DetectRaises(c)
    \/ \E c \in Callers : DetectorRaises(c)
    \/ \E c \in Callers : ReplaceStep(c)
    \/ \E c \in Callers : ReplaceRaises(c)
    \/ \E c \in Callers, reply \in LLMReplies : InvokeStep(c, reply)
    \/ \E c \in Callers : InvokeRaises(c)
    \/ \E c \in Callers : StoreStep(c)
    \/ \E c \in Callers : RestoreStep(c)
    \/ \E c \in Callers : RestoreRaises(c)

Spec == Init /\ [][Next]_vars

NextStore ==
    \/ \E t \in StoreThreads, text \in StoreTexts, label \in StoreLabels,
          replacement \in StorePlaceholders : StorePut(t, text, label, replacement)
    \/ \E t \in StoreThreads, replacement \in StorePlaceholders : StoreDelete(t, replacement)
    \/ \E t \in StoreThreads : StoreClear(t)
    \/ StoreClearAll
    \/ \E t \in StoreThreads, label \in {FormatLabel(LabelP)} : StoreInc(t, label)
    \/ \E t \in StoreThreads, payload \in ReplaceMenu : DoReplace(t, payload)
    \/ \E t \in StoreThreads, segs \in RestoreMenu : DoRestore(t, segs)

SpecStore == Init /\ [][NextStore]_vars

NextReplacer ==
    \/ \E t \in StoreThreads, payload \in ReplacerMenu : DoReplace(t, payload)
    \/ \E t \in StoreThreads, segs \in RestoreMenu : DoRestore(t, segs)

SpecReplacer == Init /\ [][NextReplacer]_vars

NextSplice ==
    \/ \E t \in StoreThreads, payload \in SpliceMenu : DoReplace(t, payload)
    \/ \E t \in StoreThreads, segs \in RestoreMenu : DoRestore(t, segs)

SpecSplice == Init /\ [][NextSplice]_vars

NextConv ==
    \/ \E t \in StoreThreads, messages \in Batches : ConvAppend(t, messages)
    \/ \E t \in StoreThreads, limit \in Limits : ConvRead(t, limit)
    \/ \E t \in StoreThreads : ConvReadAll(t)
    \/ \E t \in StoreThreads : ConvClear(t)

SpecConv == Init /\ [][NextConv]_vars

NextPar ==
    \/ \E w \in Workers, payload \in ReplaceMenu : ParBegin(w, payload)
    \/ \E w \in Workers : ParLookup(w)
    \/ \E w \in Workers : ParSeed(w)
    \/ \E w \in Workers : ParDraw(w)
    \/ \E w \in Workers : ParPut(w)

SpecPar == Init /\ [][NextPar]_vars

\* the wrapper's three entry points on the same keys, with a detector and
\* a chat model that answer
KeyHistories ==
    {<<UserUnsorted>>, <<UserPlain>>, <<UserUnsorted, ReplyPlain, UserPlain>>}

NextKeys ==
    \/ \E c \in Callers, key \in WrapperKeys, H \in KeyHistories : Begin(c, key, H)
    \/ \E c \in Callers : DetectStep(c)
    \/ \E c \in Callers : ReplaceStep(c)
    \/ \E c \in Callers : InvokeStep(c, ReplyPlain)
    \/ \E c \in Callers : StoreStep(c)
    \/ \E c \in Callers : RestoreStep(c)
    \/ \E key \in WrapperKeys : WrapperRead(key)
    \/ \E key \in WrapperKeys : WrapperClear(key)

SpecKeys == Init /\ [][NextKeys]_vars

NextMaps ==
    \/ \E t \in StoreThreads, text \in MapTexts, replacement \in MapPlaceholders :
          MapPut(t, text, LabelP, replacement)
    \/ \E t \in StoreThreads, replacement \in MapPlaceholders : MapDelete(t, replacement)
    \/ \E t \in StoreThreads : MapClear(t)
    \/ MapClearAll
    \/ MapStats
    \/ \E t \in StoreThreads : MapIterate(t)
    \/ MapIterateAll

SpecMaps == Init /\ [][NextMaps]_vars

\* histories in which two payloads of the new tail share a key: a message
\* with the id of another message, and a tool call with the id of its
\* message
UserSameId == Msg("HumanMessage", "m2", <<"h", "i">>, <<>>)

AiToolSameId == Msg("AIMessage", "a4", <<"h", "i">>, <<ToolCall("a4", "send", <<An>>)>>)

IdHistories ==
    {<<UserUnsorted>>,
     <<UserSameId, UserUnsorted>>,
     <<UserUnsorted, UserSameId>>,
     <<AiToolSameId>>}

NextIds ==
    \/ \E c \in Callers, key \in Keys \cup {NoKey}, H \in IdHistories : Begin(c, key, H)
    \/ \E c \in Callers : DetectStep(c)
    \/ \E c \in Callers : ReplaceStep(c)
    \/ \E c \in Callers, reply \in LLMReplies : InvokeStep(c, reply)
    \/ \E c \in Callers : StoreStep(c)
    \/ \E c \in Callers : RestoreStep(c)

SpecIds == Init /\ [][NextIds]_vars

\* the numbered replacer with delete and clear in between
NumberedPlaceholders ==
    {<<"[">> \o FormatLabel(LabelP) \o <<"_">> \o Format02d(n) \o <<"]">> : n \in 1..MaxCounter}

NextReuse ==
    \/ \E t \in StoreThreads, payload \in {PayloadOne, PayloadTwice} : DoReplace(t, payload)
    \/ \E t \in StoreThreads, replacement \in NumberedPlaceholders : StoreDelete(t, replacement)
    \/ \E t \in StoreThreads : StoreClear(t)
    \/ StoreClearAll

SpecReuse == Init /\ [][NextReuse]_vars

NextRace ==
    \/ \E w \in Workers, payload \in {PayloadOne, PayloadSorted, PayloadUnsorted} :
          RaceBegin(w, payload)
    \/ \E w \in Workers : RaceLookup(w)
    \/ \E w \in Workers : RaceCreate(w)
    \/ \E w \in Workers : RacePut(w)

SpecRace == Init /\ [][NextRace]_vars

NextClearRace ==
    \/ \E t \in StoreThreads, text \in MapTexts, replacement \in StorePlaceholders :
          StorePut(t, text, LabelP, replacement)
    \/ ClearAllBegin
    \/ \E ctx \in StoreThreads : ClearAllList(ctx)
    \/ ClearAllExec

SpecClearRace == Init /\ [][NextClearRace]_vars

NextDet ==
    \/ \E text \in DetectorTexts : DetBegin(text)
    \/ DetAttemptOk
    \/ DetAttemptHttpError
    \/ DetAttemptInvalid

SpecDet == Init /\ [][NextDet]_vars

\* ------------------------------------------------------------------------
\* Properties of the entity store and the replacer
\* ------------------------------------------------------------------------
\* what thread t shows through get_replacement, get_text, exists,
\* list_replacements and its label counters
ThreadView(s, t) ==
    [rep |-> s.rep[t], reps |-> s.reps[t], tex2rep |-> s.tex2rep[t], lc |-> s.lc[t]]

\* no two listed placeholders hold the same original, and the two lookup
\* directions are inverse to each other
Bijective(s, t) ==
    /\ \A p, q \in list_replacements(s, t) :
          get_text(s, p, t).text = get_text(s, q, t).text => p = q
    /\ \A p \in list_replacements(s, t) :
          get_replacement(s, get_text(s, p, t).text, t) = p
    /\ \A o \in DOMAIN s.tex2rep[t] :
          /\ s.tex2rep[t][o] \in list_replacements(s, t)
          /\ get_text(s, s.tex2rep[t][o], t).text = o

\* C3 (as claimed): restore(replace(s, entities, T), T) = s for every text s
\* whose entities are non-overlapping, whatever the thread already maps.
C3_RoundTrip ==
    (lastOp.op = "replace" /\ NonOverlapping(lastOp.entities))
        => lastOp.back = {lastOp.text}

\* C4: with numbered placeholders, after any sequence of replace calls the
\* mapping of every thread is bijective.
C4_Bijective == \A t \in ThreadIds : Bijective(es, t)

\* two originals of one label were given placeholders by replace
C4_Witness ==
    /\ lastOp.op = "replace"
    /\ {An, Cy} \subseteq DOMAIN es.tex2rep["T1"]
    /\ es.tex2rep["T1"][An] # es.tex2rep["T1"][Cy]
    /\ es.rep["T1"][es.tex2rep["T1"][An]].label = es.rep["T1"][es.tex2rep["T1"][Cy]].label

\* C5 (as claimed): after any sequence of put, delete and clear, every
\* listed placeholder p with original o has get_replacement(o) = p, and
\* every original o with get_replacement(o) = p has p listed with original o.
C5_LookupsAgree ==
    \A t \in ThreadIds :
        /\ \A p \in list_replacements(es, t) :
              get_replacement(es, get_text(es, p, t).text, t) = p
        /\ \A o \in DOMAIN es.tex2rep[t] :
              get_replacement(es, o, t) # None =>
                  /\ get_replacement(es, o, t) \in list_replacements(es, t)
                  /\ get_text(es, get_replacement(es, o, t), t).text = o

\* C6: put, delete, inc_label_counter, clear(T1) and replace on one thread
\* leave what every other thread shows unchanged.
C6_Isolation ==
    [][\A t2 \in ThreadIds :
          (lastOp'.op \in {"put", "delete", "inc", "clear", "replace"} /\ t2 # lastOp'.thread)
              => ThreadView(es', t2) = ThreadView(es, t2)]_vars

\* an operation on T1 while T2 maps the same original
C6_Witness ==
    /\ lastOp.op \in {"put", "replace"}
    /\ lastOp.thread = "T1"
    /\ An \in DOMAIN es.tex2rep["T1"]
    /\ An \in DOMAIN es.tex2rep["T2"]

\* the text the segments stand for after restoration: every placeholder of
\* the thread replaced by its own original
RECURSIVE Expected(_, _, _)
Expected(segs, s, t) ==
    IF segs = <<>> THEN <<>>
    ELSE LET seg == Head(segs)
         IN  (IF seg[1] = "ph" /\ seg[2] \in list_replacements(s, t)
              THEN get_text(s, seg[2], t).text ELSE seg[2])
             \o Expected(Tail(segs), s, t)

CharsOf(text) == {text[k] : k \in 1..Len(text)}

\* the text is made of placeholders of the thread, each a non-empty string,
\* separated by characters that occur in no placeholder of the thread
Delimited(segs, s, t) ==
    /\ <<>> \notin list_replacements(s, t)
    /\ \A k \in 1..Len(segs) :
          /\ segs[k][1] = "ph" => segs[k][2] \in list_replacements(s, t)
          /\ segs[k][1] = "lit" =>
                \A p \in list_replacements(s, t) : CharsOf(segs[k][2]) \cap CharsOf(p) = {}
          /\ (k < Len(segs) /\ segs[k][1] = "ph") =>
                (segs[k + 1][1] = "lit" /\ segs[k + 1][2] # <<>>)

\* no original of the thread contains a placeholder of the thread
OriginalsClean(s, t) ==
    \A p, q \in list_replacements(s, t) : ~Contains(get_text(s, p, t).text, q)

AllIdle == \A c \in Callers : calls[c].pc = "idle"

\* no entity the detector reports on `raw` is still to be read in `sent`
NoReportedSpanLeft(raw, sent) ==
    \A k \in 1..Len(Detect(raw)) : ~Contains(sent, Detect(raw)[k].text)

\* the j-th new message went out redacted
SentRedacted(m, sent) ==
    \/ m.type = "SystemMessage"
    \/ /\ NoReportedSpanLeft(m.content, sent.content)
       /\ Len(sent.tool_calls) = Len(m.tool_calls)
       /\ \A i \in 1..Len(m.tool_calls) :
             NoReportedSpanLeft(Dumps(m.tool_calls[i].args), Dumps(sent.tool_calls[i].args))

\* C1 (as claimed): what the wrapped model is given is the stored prefix P
\* followed by the redacted new tail, and no new-tail payload in it still
\* shows a span the detector reported on that payload.
C1_LlmSeesOnlyRedacted ==
    \A c \in Callers :
        calls[c].invoked =>
            /\ calls[c].llm_in =
                   get_encrypted_messages(calls[c].conv0, calls[c].tid) \o calls[c].Nr
            /\ Len(calls[c].Nr) = Len(calls[c].N)
            /\ \A j \in 1..Len(calls[c].N) :
                  SentRedacted(calls[c].N[j], calls[c].llm_in[Len(calls[c].P) + j])

\* C2: an original that has a placeholder in a thread keeps it, and every
\* replace substitutes an original with the placeholder the thread maps it
\* to -- within a call, in later turns and after a turn that failed.
C2_StablePlaceholder ==
    [][/\ \A t \in ThreadIds : \A o \in DOMAIN es.tex2rep[t] :
             /\ o \in DOMAIN es'.tex2rep[t]
             /\ es'.tex2rep[t][o] = es.tex2rep[t][o]
       /\ \A c \in Callers :
             (calls[c].pc = "replace" /\ calls'[c].pc = "invoke") =>
                 \A k \in 1..Len(calls'[c].used) :
                     es'.tex2rep[calls[c].tid][calls'[c].used[k][1]] = calls'[c].used[k][2]]_vars

\* a turn failed at the LLM call after its replacements were stored, and
\* the re-run substituted the same originals with the same placeholders
\* and created none
C2_Witness ==
    /\ AllIdle
    /\ prevTurn.status = "error"
    /\ prevTurn.failedAt = "invoke"
    /\ prevTurn.call.used # <<>>
    /\ lastTurn.status = "ok"
    /\ lastTurn.call.tid = prevTurn.call.tid
    /\ lastTurn.call.used = prevTurn.call.used
    /\ lastTurn.call.es0 = es

\* the last two calls were given the same key and the same history, and
\* both returned
Replayed ==
    /\ AllIdle
    /\ lastTurn.status = "ok"
    /\ prevTurn.status = "ok"
    /\ lastTurn.call.key # NoKey
    /\ lastTurn.call.key = prevTurn.call.key
    /\ lastTurn.call.H = prevTurn.call.H

\* C7: of two successive calls with the same history and thread key the
\* second appends nothing, creates no mapping and moves no counter; the
\* first appended its new tail and the reply, once.
C7_ReplayNoOp ==
    Replayed =>
        /\ conv = lastTurn.call.conv0
        /\ es = lastTurn.call.es0
        /\ Len(conv.msgs[lastTurn.call.tid]) =
               Len(prevTurn.call.conv0.msgs[lastTurn.call.tid])
               + (IF prevTurn.call.N # <<>> THEN Len(prevTurn.call.N) + 1 ELSE 0)

\* the first call redacted and stored a new tail, the second was a replay
C7_Witness ==
    /\ Replayed
    /\ prevTurn.call.N # <<>>
    /\ prevTurn.call.used # <<>>
    /\ lastTurn.call.N = <<>>

\* C9 (as claimed): a system message of the new tail goes to the wrapped
\* model unchanged, and is read back from the conversation store, as part
\* of the prefix of the later turns, with the same role and content.
C9_SystemUnchanged ==
    \A c \in Callers :
        (calls[c].pc = "restore" /\ calls[c].Nr # <<>>) =>
            LET k == Len(calls[c].P)
                stored == get_encrypted_messages(conv, calls[c].tid)
            IN  \A j \in 1..Len(calls[c].N) :
                    calls[c].N[j].type = "SystemMessage" =>
                        /\ calls[c].llm_in[k + j].type = "SystemMessage"
                        /\ calls[c].llm_in[k + j].content = calls[c].N[j].content
                        /\ stored[k + j].type = "SystemMessage"
                        /\ stored[k + j].content = calls[c].N[j].content

\* C10 (as claimed): a turn without thread key appends nothing to the
\* conversation store; no list exists for the generated id.
C10_NoKeyNotStored ==
    \A t \in FreshThreads : ~conversation_exists(conv, t)

\* C11: the conversation store is written only by the store step of a call
\* whose model invocation has returned; a call that ends at the model
\* invocation leaves the stored messages as they were when it began.
C11_AppendAfterReply ==
    [][/\ conv' # conv =>
             \E c \in Callers : /\ calls[c].pc = "store"
                                /\ calls[c].invoked
                                /\ calls[c].R \in LLMReplies
       /\ \A c \in Callers :
             (calls[c].pc = "invoke" /\ calls'[c].pc = "idle") => conv' = calls[c].conv0
       /\ \A c \in Callers :
             calls[c].pc \in {"detect", "replace", "invoke"} => conv = calls[c].conv0]_vars

\* the model raised in a turn that had redacted new messages for a thread
\* that already holds a conversation, and the store is as before the turn
C11_Witness ==
    /\ AllIdle
    /\ lastTurn.status = "error"
    /\ lastTurn.failedAt = "invoke"
    /\ lastTurn.call.Nr # <<>>
    /\ lastTurn.call.P # <<>>
    /\ conv = lastTurn.call.conv0

\* C12: a call whose detection or replacement fails ends in an error with
\* the model never invoked; the model is invoked only from the position
\* after a completed replacement, or when there is no new message.
C12_FailClosed ==
    [][\A c \in Callers :
         /\ (calls[c].pc \in {"detect", "replace"} /\ calls'[c].pc = "idle") =>
                /\ lastTurn'.status = "error"
                /\ ~lastTurn'.call.invoked
                /\ lastTurn'.call.llm_in = <<>>
         /\ (calls[c].pc # "invoke" /\ calls'[c].pc = "invoke") =>
                \/ calls[c].pc = "replace"
                \/ calls[c].pc = "idle" /\ calls'[c].N = <<>>
         /\ (~calls[c].invoked /\ calls'[c].invoked) => calls[c].pc = "invoke"
         /\ (calls[c].pc = "invoke" /\ calls'[c].pc = "idle") =>
                /\ lastTurn'.call.invoked
                /\ Len(lastTurn'.call.Nr) = Len(lastTurn'.call.N)]_vars

\* the detector raised on new messages that hold a reported entity
C12_Witness ==
    /\ AllIdle
    /\ lastTurn.status = "error"
    /\ lastTurn.failedAt = "detector"
    /\ lastTurn.call.detected
    /\ ~lastTurn.call.invoked
    /\ \E j \in 1..Len(lastTurn.call.N) : Detect(lastTurn.call.N[j].content) # <<>>

\* ids under which a message and its tool calls are detected
IdsOf(m) == {m.id} \cup {m.tool_calls[i].id : i \in 1..Len(m.tool_calls)}

\* C13: with k stored messages of the thread, the new messages are H[k:];
\* detection and replacement are applied to these and to no other message,
\* and with k >= len(H) the detector is not invoked, nothing is redacted
\* and neither store changes.
C13_Incremental ==
    \A c \in Callers :
        calls[c].pc # "idle" =>
            LET k == Len(get_encrypted_messages(calls[c].conv0, calls[c].tid))
                H == calls[c].H
                N == calls[c].N
            IN  /\ Len(calls[c].P) = k
                /\ N = IF k < Len(H) THEN SubSeq(H, k + 1, Len(H)) ELSE <<>>
                /\ calls[c].detected =>
                       /\ Len(calls[c].Nt) = Len(N)
                       /\ \A j \in 1..Len(N) :
                             /\ calls[c].Nt[j].content = N[j].content
                             /\ calls[c].Nt[j].tool_calls = N[j].tool_calls
                       /\ DOMAIN calls[c].outputs \subseteq
                              UNION {IdsOf(calls[c].Nt[j]) : j \in 1..Len(N)}
                /\ Len(calls[c].Nr) \in {0, Len(N)}
                /\ k >= Len(H) =>
                       /\ calls[c].pc \notin {"detect", "replace"}
                       /\ ~calls[c].detected
                       /\ calls[c].Nr = <<>>
                       /\ calls[c].used = <<>>
                       /\ es = calls[c].es0
                       /\ conv = calls[c].conv0

\* a later turn of a thread: the stored prefix held a redacted message, and
\* only the tail of the longer history was detected and replaced
C13_Witness ==
    \E c \in Callers :
        /\ calls[c].pc = "restore"
        /\ calls[c].P # <<>>
        /\ calls[c].detected
        /\ Len(calls[c].N) < Len(calls[c].H)
        /\ calls[c].used # <<>>
        /\ \E j \in 1..Len(calls[c].P) : Detect(calls[c].H[j].content) # <<>>

\* ------------------------------------------------------------------------
\* Properties of the conversation store
\* ------------------------------------------------------------------------
\* id and content of each message, in order
IdContent(messages) == [k \in 1..Len(messages) |-> <<messages[k].id, messages[k].content>>]

\* C14: an append makes the thread read as what it read before followed by
\* the batch in the order it was passed, so that a thread reads as the
\* concatenation of its batches in call order; other threads read as before.
C14_AppendOrder ==
    [][lastOp'.op = "append" /\ nops' = nops + 1 =>
         \A t \in ThreadIds :
             IdContent(get_encrypted_messages(conv', t)) =
                 IF t = lastOp'.thread
                 THEN IdContent(get_encrypted_messages(conv, t)) \o IdContent(lastOp'.messages)
                 ELSE IdContent(get_encrypted_messages(conv, t))]_vars

\* three batches were appended to a thread, one of them with two messages,
\* and the thread reads as the three in call order
C14_Witness ==
    /\ lastOp.op = "append"
    /\ nops = 3
    /\ Len(lastOp.messages) = 2
    /\ Len(conv.msgs[lastOp.thread]) >= 4
    /\ IdContent(SubSeq(get_encrypted_messages(conv, lastOp.thread),
                        Len(conv.msgs[lastOp.thread]) - 1, Len(conv.msgs[lastOp.thread])))
           = IdContent(lastOp.messages)

\* the last n messages of a sequence, all of them when it has fewer
LastN(messages, n) ==
    SubSeq(messages, Len(messages) - Min(n, Len(messages)) + 1, Len(messages))

\* C15 (as claimed): a read with limit n >= 0 returns the most recent
\* min(n, length) messages of the thread, oldest first.
C15_ReadLimit ==
    lastOp.op = "read" =>
        lastOp.messages = LastN(get_encrypted_messages(conv, lastOp.thread), lastOp.limit)

\* C16 (as claimed): the messages read back after an append are the
\* messages appended: same role, id, content and tool calls.
C16_StoreRoundTrip ==
    lastOp.op = "append" =>
        LastN(get_encrypted_messages(conv, lastOp.thread), Len(lastOp.messages))
            = lastOp.messages

\* C17: inc_label_counter returns a value greater than every value it has
\* returned before for the same label and thread, 1 the first time, in
\* whatever order callers' increments are served and whatever was deleted
\* or cleared in between.
C17_CounterIncreasing ==
    [][lastOp'.op = "inc" /\ nops' = nops + 1 =>
         LET t == lastOp'.thread
             l == lastOp'.text
             n == CounterOf(es', t, l)
             before == IF l \in DOMAIN issued[t] THEN issued[t][l] ELSE {}
         IN  /\ lastOp'.out = Decimal(n)
             /\ \A v \in before : n > v
             /\ before = {} => n = 1
             /\ issued'[t][l] = before \cup {n}]_vars

\* a replace took counter values, the thread was cleared, and the next
\* inc_label_counter went on from the values given out before
C17_Witness ==
    /\ lastOp.op = "inc"
    /\ lastOp.out = Decimal(2)
    /\ FormatLabel(LabelI) \in DOMAIN es.lc[lastOp.thread]
    /\ list_replacements(es, lastOp.thread) = {}
    /\ es.tex2rep[lastOp.thread] = EmptyMap

\* an assistant message among the messages has a tool call without id
MissingToolCallId(messages) ==
    \E j \in 1..Len(messages) :
        /\ messages[j].type = "AIMessage"
        /\ \E i \in 1..Len(messages[j].tool_calls) : messages[j].tool_calls[i].id = NoId

\* C18: a call whose new messages hold an assistant tool call without id
\* ends in an error at the collection of the texts: the detector and the
\* model are not invoked, and both stores are as they were when the call
\* began.
C18_MissingToolCallId ==
    [][\A c \in Callers :
         (MissingToolCallId(calls[c].N) /\ calls'[c] # calls[c]) =>
             /\ calls[c].pc = "detect"
             /\ calls'[c].pc = "idle"
             /\ lastTurn'.status = "error"
             /\ lastTurn'.failedAt = "detect"
             /\ lastTurn'.call.N = calls[c].N
             /\ ~lastTurn'.call.detected
             /\ ~lastTurn'.call.invoked
             /\ es' = calls[c].es0
             /\ conv' = calls[c].conv0]_vars

\* the call failed on a tool call without id whose arguments the detector
\* would have flagged, with mappings of an earlier turn in the entity store
C18_Witness ==
    /\ AllIdle
    /\ lastTurn.call.es0 # EmptyEntityStore
    /\ lastTurn.status = "error"
    /\ lastTurn.failedAt = "detect"
    /\ MissingToolCallId(lastTurn.call.N)
    /\ \E j \in 1..Len(lastTurn.call.N) : \E i \in 1..Len(lastTurn.call.N[j].tool_calls) :
          Detect(Dumps(lastTurn.call.N[j].tool_calls[i].args)) # <<>>
    /\ es = lastTurn.call.es0
    /\ conv = lastTurn.call.conv0

\* C19: the store step appends the replaced new messages followed by the
\* reply as the model gave it, and a message the detector reported on is
\* not stored with its raw content; the restore step writes nothing and
\* returns the restored reply, while the stored reply stays as received.
C19_StoredAfterRedaction ==
    [][\A c \in Callers :
         LET t == calls[c].tid
             before == get_encrypted_messages(conv, t)
             after == get_encrypted_messages(conv', t)
         IN  /\ (calls[c].pc = "store" /\ calls'[c].pc = "restore" /\ conv' # conv) =>
                    /\ IdContent(after) =
                           IdContent(before) \o IdContent(calls[c].Nr \o <<calls[c].R>>)
                    /\ \A j \in 1..Len(calls[c].N) :
                          calls[c].Nt[j].id \in DOMAIN calls[c].outputs =>
                              after[Len(before) + j].content # calls[c].N[j].content
             /\ (calls[c].pc = "restore" /\ calls'[c].pc = "idle") =>
                    /\ conv' = conv
                    /\ calls[c].Nr # <<>> => after[Len(after)].content = calls[c].R.content
                    /\ lastTurn'.status = "ok" =>
                           \E order \in RestoreOrders(es, t) :
                               lastTurn'.returned = _restore_entities(es, calls[c].R, order, t).message]_vars

\* a turn replaced an original in a new message, the model answered with
\* the placeholder, the caller got the original back and the thread holds
\* the reply with the placeholder
C19_Witness ==
    /\ AllIdle
    /\ lastTurn.status = "ok"
    /\ lastTurn.call.used # <<>>
    /\ lastTurn.call.R = ReplyPlaceholder
    /\ lastTurn.returned.content # ReplyPlaceholder.content
    /\ LET stored == get_encrypted_messages(conv, lastTurn.call.tid)
       IN  /\ stored # <<>>
           /\ stored[Len(stored)].content = ReplyPlaceholder.content

\* ------------------------------------------------------------------------
\* Properties of calls that run at the same time
\* ------------------------------------------------------------------------
\* C20 (as claimed): a replace that runs next to a replace on another
\* thread ends with the text and with the mappings of its thread that it
\* ends with when it runs alone, and uses no value made for the other thread.
C20_ParallelAsAlone ==
    \A w \in Workers :
        workers[w].pc = "done" =>
            LET t == WorkerThread(w)
                alone == pseudonym_replace(EmptyEntityStore, workers[w].payload.text,
                                           workers[w].payload.entities, t)
            IN  /\ workers[w].text = alone.text
                /\ ThreadView(es, t) = ThreadView(alone.store, t)

\* ------------------------------------------------------------------------
\* Further properties of the replacer and the entity store
\* ------------------------------------------------------------------------
\* the entity lists that hold the entities of a list in some order
Permuted(entities) ==
    LET n == Len(entities)
    IN  {[i \in 1..n |-> entities[f[i]]] :
            f \in {g \in [1..n -> 1..n] : \A i, j \in 1..n : g[i] = g[j] => i = j}}

\* C21 (as claimed): replace gives the same text for every order in which
\* the non-overlapping entities of a payload are listed.
C21_OrderIndependent ==
    [][(lastOp'.op = "replace" /\ nops' = nops + 1 /\ NonOverlapping(lastOp'.entities)) =>
          \A e \in Permuted(lastOp'.entities) :
              replace(es, lastOp'.text, e, lastOp'.thread).text = lastOp'.out]_vars

CreatedPairs(call) ==
    {call.used[k] : k \in {j \in 1..Len(call.used) :
                              call.used[j][1] \notin DOMAIN call.es0.tex2rep[call.tid]}}

\* where `received` shows placeholder p, `returned` shows original o and
\* p no more
RestoredIn(received, returned, o, p) ==
    Contains(received, p) => (Contains(returned, o) /\ ~Contains(returned, p))

\* C23: when the restore step of a call runs, every mapping the call
\* created is in the entity store, and a reply that is returned shows the
\* original for every such placeholder it was received with, in its content
\* and in the arguments of its tool calls.
C23_CreatedThenRestored ==
    [][\A c \in Callers :
         (calls[c].pc = "restore" /\ calls'[c].pc = "idle") =>
             \A pair \in CreatedPairs(calls[c]) :
                 /\ pair[2] \in list_replacements(es, calls[c].tid)
                 /\ get_text(es, pair[2], calls[c].tid).text = pair[1]
                 /\ lastTurn'.status = "ok" =>
                       /\ RestoredIn(calls[c].R.content, lastTurn'.returned.content,
                                     pair[1], pair[2])
                       /\ Len(lastTurn'.returned.tool_calls) = Len(calls[c].R.tool_calls)
                       /\ \A i \in 1..Len(calls[c].R.tool_calls) :
                             \A a \in 1..Len(calls[c].R.tool_calls[i].args) :
                                 RestoredIn(calls[c].R.tool_calls[i].args[a],
                                            lastTurn'.returned.tool_calls[i].args[a],
                                            pair[1], pair[2])]_vars

\* the turn created the mapping of "An", the model used the placeholder as
\* a tool argument, and the caller got the tool call with "An"
C23_Witness ==
    /\ AllIdle
    /\ lastTurn.status = "ok"
    /\ <<An, PlaceholderP01>> \in CreatedPairs(lastTurn.call)
    /\ lastTurn.call.R = ReplyTool
    /\ lastTurn.returned.tool_calls[1].args = <<An>>

\* the label as the placeholder format describes it: upper case, every
\* character that is neither a letter nor a digit turned into "_"
ClaimedLabel(label) ==
    LET alnum(c) == \/ \E k \in 1..26 : c \in {LowerChars[k], UpperChars[k]}
                    \/ \E k \in 1..10 : c = DigitChars[k]
    IN  [k \in 1..Len(label) |-> UpperChar(IF alnum(label[k]) THEN label[k] ELSE "_")]

\* the placeholders thread t holds for originals of a label
PlaceholdersOf(s, t, label) ==
    {p \in list_replacements(s, t) : get_text(s, p, t).label = label}

\* the labels under which thread t holds an original
LabelsOf(s, t) == {get_text(s, p, t).label : p \in list_replacements(s, t)}

\* C24 (as claimed): with replace calls one after the other, the
\* placeholders a thread holds for a label L are [L'_01] .. [L'_n] for its n
\* originals of that label, L' being L in upper case with every
\* non-alphanumeric character replaced by "_", and the label's counter is n.
C24_NumberedFormat ==
    \A t \in ThreadIds : \A label \in LabelsOf(es, t) :
        LET n == Cardinality(PlaceholdersOf(es, t, label))
        IN  /\ PlaceholdersOf(es, t, label) =
                   {<<"[">> \o ClaimedLabel(label) \o <<"_">> \o Format02d(k) \o <<"]">> :
                       k \in 1..n}
            /\ CounterOf(es, t, FormatLabel(label)) = n

ClaimedThread(key) == IF key \in ThreadIds THEN key ELSE Md5Uuid(key)

\* C26: a key resolves to the same ThreadId at the three entry points: a
\* turn under a key reads the stored messages of the key's ThreadId,
\* get_encrypted_messages returns them and clear_conversation clears them.
C26_SameThread ==
    [][/\ \A c \in Callers, key \in WrapperKeys, H \in KeyHistories :
              Begin(c, key, H) =>
                  /\ calls'[c].tid = ClaimedThread(key)
                  /\ calls'[c].P = get_encrypted_messages(conv, ClaimedThread(key))
       /\ \A key \in WrapperKeys :
              WrapperRead(key) =>
                  lastOp'.messages = get_encrypted_messages(conv, ClaimedThread(key))
       /\ \A key \in WrapperKeys :
              WrapperClear(key) =>
                  conv' = clear_conversation(conv, ClaimedThread(key))]_vars

\* C26 for the keys that are not empty
C26_SameThreadNonEmpty ==
    [][/\ \A c \in Callers, key \in WrapperKeys \ {EmptyKey}, H \in KeyHistories :
              Begin(c, key, H) =>
                  /\ calls'[c].tid = ClaimedThread(key)
                  /\ calls'[c].P = get_encrypted_messages(conv, ClaimedThread(key))
       /\ \A key \in WrapperKeys \ {EmptyKey} :
              WrapperRead(key) =>
                  lastOp'.messages = get_encrypted_messages(conv, ClaimedThread(key))
       /\ \A key \in WrapperKeys \ {EmptyKey} :
              WrapperClear(key) =>
                  conv' = clear_conversation(conv, ClaimedThread(key))]_vars

\* ------------------------------------------------------------------------
\* Properties of the stored history over turns, reads and clears
\* ------------------------------------------------------------------------
IsPrefix(a, b) == Len(a) <= Len(b) /\ \A k \in 1..Len(a) : a[k] = b[k]

\* C27: in every step that is not a clear, what a read of a thread returns
\* before the step is a prefix of what it returns after the step.
C27_AppendOnly ==
    [][\/ \E key \in WrapperKeys : WrapperClear(key)
       \/ \A t \in ThreadIds :
              IsPrefix(get_encrypted_messages(conv, t), get_encrypted_messages(conv', t))]_vars

\* a read returns the four messages two turns have stored under a key
C27_Witness ==
    /\ lastOp.op = "wrapper_read"
    /\ Len(lastOp.messages) = 4
    /\ lastOp.messages = get_encrypted_messages(conv, "T1")
    /\ nturns = 2

\* ------------------------------------------------------------------------
\* Properties of delete, clear and get_stats
\* ------------------------------------------------------------------------
\* C28: delete of a placeholder that the thread does not list raises and
\* leaves the records, sets, text indexes, counters and ctxs as they were.
C28_DeleteAbsentRaises ==
    [][\A t \in StoreThreads, replacement \in StorePlaceholders :
           (StoreDelete(t, replacement) /\ replacement \notin list_replacements(es, t))
               => (lastOp'.raised /\ es' = es)]_vars

\* a delete raised in a thread that holds another mapping and a counter
C28_Witness ==
    /\ lastOp.op = "delete"
    /\ lastOp.raised
    /\ list_replacements(es, lastOp.thread) # {}
    /\ lastOp.out \notin list_replacements(es, lastOp.thread)
    /\ DOMAIN es.lc[lastOp.thread] # {}

\* C29: after clear(T) thread T lists no placeholder, holds no record and
\* finds no placeholder for any original; after clear() this is so for
\* every thread.
NoMapping(s, t) ==
    /\ list_replacements(s, t) = {}
    /\ \A p \in MapPlaceholders : ~exists(s, p, t)
    /\ \A o \in MapTexts : get_replacement(s, o, t) = None

C29_ClearedHoldsNothing ==
    [][/\ \A t \in StoreThreads : MapClear(t) => NoMapping(es', t)
       /\ MapClearAll => \A t \in StoreThreads : NoMapping(es', t)]_vars

\* C29 for clear() alone
C29_ClearAllHoldsNothing ==
    [][MapClearAll => \A t \in StoreThreads : NoMapping(es', t)]_vars

\* C30: get_stats returns the number of threads that hold a mapping as
\* contexts and the number of mappings of all threads as total_entries.
C30_Stats ==
    [][MapStats =>
          /\ lastOp'.stats.contexts =
                 Card({t \in ThreadIds : list_replacements(es, t) # {}})
          /\ lastOp'.stats.total_entries = TotalEntries(es, ThreadIds)]_vars

\* C30 for total_entries alone
C30_StatsEntries ==
    [][MapStats => lastOp'.stats.total_entries = TotalEntries(es, ThreadIds)]_vars

\* ------------------------------------------------------------------------
\* Properties of replace against the specified algorithm
\* ------------------------------------------------------------------------
\* the specified algorithm: entities in the order given, splice at
\* start + offset and end + offset, offset += len(placeholder) - (end - start)
RECURSIVE SpecifiedLoop(_, _, _, _, _, _)
SpecifiedLoop(s, text, entities, t, k, offset) ==
    IF k > Len(entities) THEN text
    ELSE LET entity == entities[k]
             found  == get_replacement(s, entity.text, t)
             placeholder == IF found = None THEN create_replacement(s, entity, t) ELSE found
             s2 == IF found = None
                   THEN put(create_replacement_store(s, entity, t),
                            entity.text, entity.label, placeholder, t)
                   ELSE s
         IN  SpecifiedLoop(s2,
                           SliceTo(text, entity.start + offset) \o placeholder
                               \o SliceFrom(text, entity.end + offset),
                           entities, t, k + 1,
                           offset + Len(placeholder) - (entity.end - entity.start))

\* C31: replace returns the text the specified algorithm returns, for
\* every payload and entity list, entities whose text is longer or shorter
\* than end - start included.
C31_ReplaceAsSpecified ==
    [][\A t \in StoreThreads, payload \in SpliceMenu :
           DoReplace(t, payload) =>
               lastOp'.out = SpecifiedLoop(es, payload.text, payload.entities, t, 1, 0)]_vars

\* C31 for the entities whose text is as long as their span
C31_ReplaceAsSpecifiedExact ==
    [][\A t \in StoreThreads, payload \in SpliceMenu :
           (DoReplace(t, payload)
            /\ \A k \in 1..Len(payload.entities) :
                   Len(payload.entities[k].text)
                       = payload.entities[k].end - payload.entities[k].start) =>
               lastOp'.out = SpecifiedLoop(es, payload.text, payload.entities, t, 1, 0)]_vars

\* ------------------------------------------------------------------------
\* Properties of the pseudonym replacer
\* ------------------------------------------------------------------------
\* C32: when a replace with the pseudonym replacer has finished, two
\* entities of its payload with different texts and the same label are
\* mapped to different pseudonyms, and each pseudonym's record holds its
\* own original.
C32_DistinctPseudonyms ==
    \A w \in Workers :
        workers[w].pc = "done" =>
            LET t == WorkerThread(w)
                entities == workers[w].payload.entities
            IN  \A i, j \in 1..Len(entities) :
                    (entities[i].text # entities[j].text /\ entities[i].label = entities[j].label) =>
                        /\ get_replacement(es, entities[i].text, t)
                               # get_replacement(es, entities[j].text, t)
                        /\ get_text(es, get_replacement(es, entities[i].text, t), t).text
                               = entities[i].text

\* ------------------------------------------------------------------------
\* Properties of iterate_entries
\* ------------------------------------------------------------------------
\* the (text, label, replacement, thread) tuples thread t holds
Held(s, t) ==
    {<<s.rep[t][p].text, s.rep[t][p].label, p, t>> : p \in DOMAIN s.rep[t]}

\* C33: iterate_entries(T) yields the tuples thread T holds, and
\* iterate_entries() yields the tuples of all threads that hold mappings.
C33_IterateEntries ==
    [][/\ \A t \in StoreThreads : MapIterate(t) => lastOp'.entries = Held(es, t)
       /\ MapIterateAll => lastOp'.entries = UNION {Held(es, t) : t \in ThreadIds}]_vars

\* C33 for iterate_entries(T) alone
C33_IterateThread ==
    [][\A t \in StoreThreads : MapIterate(t) => lastOp'.entries = Held(es, t)]_vars

\* ------------------------------------------------------------------------
\* Further properties of _generate
\* ------------------------------------------------------------------------
\* C34: after a call that ended in an error, at whatever step, the
\* conversation store is as it was when the call began.
C34_ErrorLeavesHistory ==
    (AllIdle /\ lastTurn.status = "error") => conv = lastTurn.call.conv0

\* C34 for the calls that fail before the store step
C34_ErrorBeforeStore ==
    (AllIdle /\ lastTurn.status = "error" /\ lastTurn.failedAt # "restore")
        => conv = lastTurn.call.conv0

\* payload[start:end]
Span(payload, entity) ==
    SubSeq(payload, SliceIndex(Len(payload), entity.start) + 1,
           SliceIndex(Len(payload), entity.end))

\* C35: every payload the wrapper hands to replace comes with entities
\* found on that payload: payload[start:end] is the text of each entity.
C35_EntitiesOfPayload ==
    \A c \in Callers :
        calls[c].pc = "replace" =>
            \A call \in ReplaceCalls(calls[c].Nt, calls[c].outputs) :
                \A k \in 1..Len(call[2]) : Span(call[1], call[2][k]) = call[2][k].text

\* C36: two turns under different keys run on different ThreadIds, so the
\* later one reads none of the history the earlier one stored.
C36_KeysApart ==
    (lastTurn.status # "none" /\ prevTurn.status # "none"
     /\ lastTurn.call.key # prevTurn.call.key) =>
        /\ lastTurn.call.tid # prevTurn.call.tid
        /\ (prevTurn.call.P = <<>> => lastTurn.call.P = <<>>)

\* ------------------------------------------------------------------------
\* Properties of the numbered placeholders over delete and clear
\* ------------------------------------------------------------------------
\* C37: a numbered placeholder has stood for one original only in its
\* thread, whatever was deleted or cleared in between.
C37_NeverReassigned ==
    \A t \in StoreThreads :
        \A a, b \in assigned[t] :
            (a[2] = b[2] /\ a[2] \in NumberedPlaceholders) => a[1] = b[1]

\* a thread was cleared or a placeholder deleted, and a later replace gave
\* new placeholders while an old one is gone from the store
C37_Witness ==
    /\ lastOp.op = "replace"
    /\ \E a \in assigned[lastOp.thread] :
           /\ a[2] \in NumberedPlaceholders
           /\ ~exists(es, a[2], lastOp.thread)
           /\ get_replacement(es, a[1], lastOp.thread) \in NumberedPlaceholders \ {a[2]}

\* ------------------------------------------------------------------------
\* Properties of concurrent calls on one thread
\* ------------------------------------------------------------------------
\* C38: when two replace calls on "An" in the same empty thread have both
\* finished, they have put the same placeholder into their texts, the
\* thread lists one placeholder and the counter of the label stands at 1.
C38_OnePlaceholder ==
    (\A w \in Workers : workers[w].pc = "done" /\ workers[w].payload = PayloadOne) =>
        /\ workers["w1"].text = workers["w2"].text
        /\ Card(list_replacements(es, RaceThread)) = 1
        /\ CounterOf(es, RaceThread, FormatLabel(LabelP)) = 1

\* C39: when no clear() is under way, every record that exists is listed
\* in its thread's set, its original is found by get_replacement, and its
\* thread is in ctxs.
C39_PutWholeOrAbsent ==
    clr.pc = "idle" =>
        \A t \in StoreThreads :
            \A p \in StorePlaceholders :
                exists(es, p, t) =>
                    /\ p \in list_replacements(es, t)
                    /\ get_replacement(es, get_text(es, p, t).text, t) # None
                    /\ t \in es.ctxs

====
